---- MODULE Spec2Model ----
(***************************************************************************)
(* Model of the FlowSync landing page development server (server.js).      *)
(*                                                                         *)
(* Strings are sequences of one-character strings, so that the path        *)
(* functions are computed character by character as the code computes     *)
(* them.  The path library is Node's POSIX implementation.                 *)
(*                                                                         *)
(* Three specifications share the module's variables:                      *)
(*   SpecResolve  the request handler's path computation                   *)
(*   SpecHttp     requests, asynchronous file reads and responses          *)
(*   SpecPush     watcher events, the debounce timer, the connection set   *)
(*                and the broadcast (FairSpecPush adds the scheduling)     *)
(***************************************************************************)
EXTENDS Integers, Sequences, FiniteSets, TLC

\* ------------------------------------------------------------------------
\* Bounds
\* ------------------------------------------------------------------------

\* Longest request target drawn in SpecResolve (after the optional scheme).
MaxLen == 5

\* Number of HTTP requests followed in SpecHttp.
MaxRequests == 2

\* Number of push connections followed in SpecPush.
MaxConns == 2

\* Number of watcher events followed in SpecPush.
MaxEvents == 3

\* Clock steps per debounce window.
TicksPerWindow == 2

MaxPieces == 2

MaxSockets == 2

MaxSigints == 2

MaxTabs == 2

MaxPortDigits == 4

MaxSubmits == 3
MaxWait == 2
MaxCalls == 4
MaxNavEvents == 3
MaxPageSockets == 12

\* ------------------------------------------------------------------------
\* Strings
\* ------------------------------------------------------------------------

Range(s) == {s[i] : i \in 1..Len(s)}

Last(s) == s[Len(s)]

EndsWith(s, ch) == Len(s) > 0 /\ s[Len(s)] = ch

\* First index of ch in s, 0 when absent.
RECURSIVE IndexFrom(_, _, _)
IndexFrom(s, ch, i) ==
    IF i > Len(s) THEN 0
    ELSE IF s[i] = ch THEN i
    ELSE IndexFrom(s, ch, i + 1)

IndexOf(s, ch) == IndexFrom(s, ch, 1)

\* s.split('/') : the segments between separators, empty ones included.
RECURSIVE SplitFrom(_, _, _, _)
SplitFrom(s, sep, i, cur) ==
    IF i > Len(s) THEN <<cur>>
    ELSE IF s[i] = sep THEN <<cur>> \o SplitFrom(s, sep, i + 1, <<>>)
    ELSE SplitFrom(s, sep, i + 1, Append(cur, s[i]))

Segments(s) == SplitFrom(s, "/", 1, <<>>)

RECURSIVE JoinSegments(_)
JoinSegments(segs) ==
    IF segs = <<>> THEN <<>>
    ELSE IF Len(segs) = 1 THEN segs[1]
    ELSE segs[1] \o <<"/">> \o JoinSegments(Tail(segs))

DotDot == <<".", ".">>

\* ------------------------------------------------------------------------
\* Configuration
\* ------------------------------------------------------------------------

\* config.staticDir: an absolute directory (path.join(__dirname, 'src')).
StaticDir == <<"/", "r">>

IndexHtml == <<"i", "n", "d", "e", "x", ".", "h", "t", "m", "l">>

\* ------------------------------------------------------------------------
\* path.normalize, path.join (POSIX)
\* ------------------------------------------------------------------------

\* normalizeString: resolves '.' and '..' segments; res is the list of
\* segments kept so far.
RECURSIVE NormalizeSegs(_, _, _)
NormalizeSegs(segs, res, allowAboveRoot) ==
    IF segs = <<>> THEN res
    ELSE LET seg == Head(segs)
             rest == Tail(segs)
         IN IF seg = <<>> \/ seg = <<".">>
            THEN NormalizeSegs(rest, res, allowAboveRoot)
            ELSE IF seg = DotDot
            THEN IF res # <<>> /\ Last(res) # DotDot
                 THEN NormalizeSegs(rest, SubSeq(res, 1, Len(res) - 1), allowAboveRoot)
                 ELSE IF allowAboveRoot
                 THEN NormalizeSegs(rest, Append(res, DotDot), allowAboveRoot)
                 ELSE NormalizeSegs(rest, res, allowAboveRoot)
            ELSE NormalizeSegs(rest, Append(res, seg), allowAboveRoot)

Normalize(p) ==
    IF p = <<>> THEN <<".">>
    ELSE LET isAbsolute == p[1] = "/"
             trailingSeparator == EndsWith(p, "/")
             body == JoinSegments(NormalizeSegs(Segments(p), <<>>, ~isAbsolute))
         IN IF body = <<>>
            THEN IF isAbsolute THEN <<"/">>
                 ELSE IF trailingSeparator THEN <<".", "/">> ELSE <<".">>
            ELSE LET b2 == IF trailingSeparator THEN body \o <<"/">> ELSE body
                 IN IF isAbsolute THEN <<"/">> \o b2 ELSE b2

\* path.join(a, b): the non-empty arguments joined by '/', then normalized.
PathJoin(a, b) ==
    LET joined == IF a = <<>> THEN b
                  ELSE IF b = <<>> THEN a
                  ELSE a \o <<"/">> \o b
    IN IF joined = <<>> THEN <<".">> ELSE Normalize(joined)

\* ------------------------------------------------------------------------
\* Request handler: URL to file path
\* ------------------------------------------------------------------------

\* req.url.split('?')[0]
SplitQuery(url) ==
    LET q == IndexOf(url, "?")
    IN IF q = 0 THEN url ELSE SubSeq(url, 1, q - 1)

\* .replace(/^(\.\.[\/\\])+/, '')
RECURSIVE StripTraversal(_)
StripTraversal(s) ==
    IF Len(s) >= 3 /\ s[1] = "." /\ s[2] = "." /\ s[3] \in {"/", "\\"}
    THEN StripTraversal(SubSeq(s, 4, Len(s)))
    ELSE s

\* urlPath after line 269: query removed, normalized, leading '../' stripped.
SanitizedPath(url) == StripTraversal(Normalize(SplitQuery(url)))

\* urlPath === '/' || urlPath.endsWith('/')
IsDirectoryRequest(urlPath) == urlPath = <<"/">> \/ EndsWith(urlPath, "/")

\* Mutant: only the root path gets the index document.
WithIndex_RootOnly(urlPath) ==
    IF urlPath = <<"/">> THEN PathJoin(urlPath, IndexHtml) ELSE urlPath

WithIndex(urlPath) ==
    IF IsDirectoryRequest(urlPath) THEN PathJoin(urlPath, IndexHtml) ELSE urlPath

\* .replace(/^\//, '')
StripLeadingSlash(s) ==
    IF Len(s) >= 1 /\ s[1] = "/" THEN Tail(s) ELSE s

\* The path the request handler hands to serveFile.
ResolveUrlPath(url) == StripLeadingSlash(WithIndex(SanitizedPath(url)))

\* serveFile: fullPath = path.join(config.staticDir, filePath)
FullPath(filePath) == PathJoin(StaticDir, filePath)

\* ------------------------------------------------------------------------
\* getMimeType
\* ------------------------------------------------------------------------

LastSegment(segs) ==
    LET named == SelectSeq(segs, LAMBDA seg : seg # <<>>)
    IN IF named = <<>> THEN <<>> ELSE Last(named)

RECURSIVE LastIndexFrom(_, _, _)
LastIndexFrom(s, ch, i) ==
    IF i = 0 THEN 0
    ELSE IF s[i] = ch THEN i
    ELSE LastIndexFrom(s, ch, i - 1)

\* path.extname: from the last '.' of the last segment; empty when there is
\* no '.', when the only '.' leads the segment, and for '..'.
Extname(p) ==
    LET base == LastSegment(Segments(p))
        d == LastIndexFrom(base, ".", Len(base))
    IN IF d <= 1 \/ base = DotDot THEN <<>> ELSE SubSeq(base, d, Len(base))

UpperCase == <<"A", "B", "C", "D", "E", "F", "G", "H", "I", "J", "K", "L", "M", "N", "O", "P", "Q", "R", "S", "T", "U", "V", "W", "X", "Y", "Z">>

LowerCase == <<"a", "b", "c", "d", "e", "f", "g", "h", "i", "j", "k", "l", "m", "n", "o", "p", "q", "r", "s", "t", "u", "v", "w", "x", "y", "z">>

LowerChar(ch) ==
    IF \E i \in 1..Len(UpperCase) : UpperCase[i] = ch
    THEN LowerCase[CHOOSE i \in 1..Len(UpperCase) : UpperCase[i] = ch]
    ELSE ch

ToLowerCase(s) == [i \in 1..Len(s) |-> LowerChar(s[i])]

NoType == "undefined"

\* The keys of customMimeTypes.
CustomKeys ==
    { <<".", "h", "t", "m", "l">>,
      <<".", "c", "s", "s">>,
      <<".", "j", "s">>,
      <<".", "j", "s", "o", "n">>,
      <<".", "p", "n", "g">>,
      <<".", "j", "p", "g">>,
      <<".", "j", "p", "e", "g">>,
      <<".", "g", "i", "f">>,
      <<".", "s", "v", "g">>,
      <<".", "i", "c", "o">>,
      <<".", "w", "o", "f", "f">>,
      <<".", "w", "o", "f", "f", "2">>,
      <<".", "t", "t", "f">>,
      <<".", "e", "o", "t">> }

\* customMimeTypes[ext]: undefined for what is not a key.
CustomMimeType(ext) ==
    CASE ext = <<".", "h", "t", "m", "l">> -> "text/html; charset=utf-8"
      [] ext = <<".", "c", "s", "s">> -> "text/css; charset=utf-8"
      [] ext = <<".", "j", "s">> -> "application/javascript; charset=utf-8"
      [] ext = <<".", "j", "s", "o", "n">> -> "application/json; charset=utf-8"
      [] ext = <<".", "p", "n", "g">> -> "image/png"
      [] ext = <<".", "j", "p", "g">> -> "image/jpeg"
      [] ext = <<".", "j", "p", "e", "g">> -> "image/jpeg"
      [] ext = <<".", "g", "i", "f">> -> "image/gif"
      [] ext = <<".", "s", "v", "g">> -> "image/svg+xml; charset=utf-8"
      [] ext = <<".", "i", "c", "o">> -> "image/x-icon"
      [] ext = <<".", "w", "o", "f", "f">> -> "font/woff"
      [] ext = <<".", "w", "o", "f", "f", "2">> -> "font/woff2"
      [] ext = <<".", "t", "t", "f">> -> "font/ttf"
      [] ext = <<".", "e", "o", "t">> -> "application/vnd.ms-fontobject"
      [] OTHER -> NoType

\* mimeTypes.lookup(filePath): the library's own table (here the entries for
\* the extensions the model's paths can spell), looked up by the lower-cased
\* extension of 'x.' + path, so that a bare name counts as an extension;
\* false when there is no entry.
LibraryMimeType(p) ==
    LET ext == ToLowerCase(Extname(<<"x", ".">> \o p))
    IN CASE ext = <<".", "h", "t", "m", "l">> -> "text/html"
         [] ext = <<".", "h", "t", "m">> -> "text/html"
         [] ext = <<".", "c", "s", "s">> -> "text/css"
         [] ext = <<".", "t", "x", "t">> -> "text/plain"
         [] ext = <<".", "j", "s">> -> "application/javascript"
         [] ext = <<".", "c">> -> "text/x-c"
         [] ext = <<".", "s">> -> "text/x-asm"
         [] OTHER -> NoType

\* Mutant: the extension is looked up in the table as written.
GetMimeType_CaseSensitive(filePath) ==
    LET custom == CustomMimeType(Extname(filePath))
        library == LibraryMimeType(filePath)
    IN IF custom # NoType THEN custom
       ELSE IF library # NoType THEN library
       ELSE "application/octet-stream"

GetMimeType(filePath) ==
    LET custom == CustomMimeType(ToLowerCase(Extname(filePath)))
        library == LibraryMimeType(filePath)
    IN IF custom # NoType THEN custom
       ELSE IF library # NoType THEN library
       ELSE "application/octet-stream"

\* mimeType.includes('text/html')
IncludesTextHtml(mimeType) == mimeType \in {"text/html; charset=utf-8", "text/html"}

\* ------------------------------------------------------------------------
\* serveFile
\* ------------------------------------------------------------------------

NoError == "none"

WriteHead(status, ctype, clen) ==
    [op |-> "writeHead", status |-> status, ctype |-> ctype, clen |-> clen, body |-> <<>>]

End(body) ==
    [op |-> "end", status |-> 0, ctype |-> "-", clen |-> -1, body |-> body]

\* File content and response bodies are sequences of pieces of text.  A piece
\* is a run of plain characters ("x"), the lone byte 0xE9 (Latin-1 e-acute,
\* not valid UTF-8), the character U+FFFD, a closing body tag as written,
\* or the reload script.
ClosingBodyTag == "</body>"

ScriptPiece == "<script>live reload</script>"

\* The bytes a piece takes in a Buffer (the script's text is ASCII).
PieceBytes(piece) ==
    CASE piece = "x" -> 1
      [] piece = "0xE9" -> 1
      [] piece = "U+FFFD" -> 3
      [] piece = "</body>" -> 7
      [] piece = "</BODY>" -> 7
      [] piece = ScriptPiece -> 1537
      [] OTHER -> 1

\* Buffer.length
RECURSIVE ByteLength(_)
ByteLength(buf) ==
    IF buf = <<>> THEN 0 ELSE PieceBytes(Head(buf)) + ByteLength(Tail(buf))

\* data.toString(): UTF-8 decoding, a byte that is not valid UTF-8 becomes
\* U+FFFD.
BufferToString(buf) == [i \in 1..Len(buf) |-> IF buf[i] = "0xE9" THEN "U+FFFD" ELSE buf[i]]

\* Buffer.from(string): UTF-8 encoding.
BufferFrom(str) == str

\* The template literal `${liveReloadScript}</body>`
LiveReloadScript == << ScriptPiece >>

\* String.prototype.replace(pattern, replacement) with a string pattern:
\* the first occurrence only, the string itself when there is none.
StringReplace(str, pattern, replacement) ==
    IF \E i \in 1..Len(str) : str[i] = pattern
    THEN LET i == CHOOSE k \in 1..Len(str) :
                      str[k] = pattern /\ \A j \in 1..(k - 1) : str[j] # pattern
         IN SubSeq(str, 1, i - 1) \o replacement \o SubSeq(str, i + 1, Len(str))
    ELSE str

\* The 404 page: fixed markup around the requested path.
NotFoundPage(filePath) == << "404 page head" >> \o filePath \o << "404 page tail" >>

\* No Content-Length among the headers passed to writeHead.
NoLength == -1

\* The success branch of the callback: lines 243-260.
ServeFound(data, filePath, srv) ==
    LET mimeType == GetMimeType(filePath)
    IN IF IncludesTextHtml(mimeType) /\ srv
       THEN LET modifiedHtml == StringReplace(BufferToString(data), ClosingBodyTag,
                                              LiveReloadScript \o << ClosingBodyTag >>)
                rewritten == BufferFrom(modifiedHtml)
            IN << WriteHead(200, mimeType, ByteLength(rewritten)), End(rewritten) >>
       ELSE << WriteHead(200, mimeType, NoLength), End(data) >>

\* The error branch of the callback: lines 206-240.
ServeNotFound(filePath) ==
    << WriteHead(404, "text/html; charset=utf-8", NoLength), End(NotFoundPage(filePath)) >>

\* Mutant: the error branch does not return, so the success branch runs too.
ServeFileCallback_NoReturn(err, data, filePath, srv) ==
    IF err # NoError
    THEN ServeNotFound(filePath) \o ServeFound(data, filePath, srv)
    ELSE ServeFound(data, filePath, srv)

\* Mutant: only a missing file is a 404, any other read error a plain 500.
ServeFileCallback_500(err, data, filePath, srv) ==
    IF err = "ENOENT" THEN ServeNotFound(filePath)
    ELSE IF err # NoError
    THEN << WriteHead(500, "text/plain", NoLength), End(<< "error" >>) >>
    ELSE ServeFound(data, filePath, srv)

\* Mutant: the script is injected into HTML whether or not a push server
\* exists.
ServeFileCallback_NoServerCheck(err, data, filePath, srv) ==
    IF err # NoError THEN ServeNotFound(filePath)
    ELSE ServeFound(data, filePath, TRUE)

\* The callback of fs.readFile: the calls it makes on res, in order.
ServeFileCallback(err, data, filePath, srv) ==
    IF err # NoError THEN ServeNotFound(filePath)
    ELSE ServeFound(data, filePath, srv)

HeadersSent(log) == \E i \in 1..Len(log) : log[i].op = "writeHead"

Finished(log) == \E i \in 1..Len(log) : log[i].op = "end"

\* The response object: writeHead after the headers were sent throws
\* (ERR_HTTP_HEADERS_SENT) and the rest of the callback does not run; end on
\* a finished response is ignored.
RECURSIVE RunOps(_, _)
RunOps(log, ops) ==
    IF ops = <<>> THEN [log |-> log, threw |-> FALSE]
    ELSE LET o == Head(ops)
         IN IF o.op = "writeHead" /\ HeadersSent(log)
            THEN [log |-> log, threw |-> TRUE]
            ELSE IF o.op = "end" /\ Finished(log)
            THEN RunOps(log, Tail(ops))
            ELSE RunOps(Append(log, o), Tail(ops))

\* What fs.readFile can report for a path: a directory is never readable, a
\* file may or may not be there and may fail to be read.
IsDirectoryPath(fullPath) ==
    \/ fullPath = StaticDir
    \/ EndsWith(fullPath, "/")
    \/ (Len(fullPath) <= Len(StaticDir) /\ SubSeq(StaticDir, 1, Len(fullPath)) = fullPath)

ReadOutcomes(fullPath) ==
    IF IsDirectoryPath(fullPath) THEN {"EISDIR"}
    ELSE {NoError, "ENOENT", "EACCES"}

\* ------------------------------------------------------------------------
\* Ports
\* ------------------------------------------------------------------------

\* JavaScript values: numbers and strings (sequences of characters).
JsNumber(n) == [type |-> "number", n |-> n, s |-> <<>>]

JsString(s) == [type |-> "string", n |-> 0, s |-> s]

NoEnv == [type |-> "undefined", n |-> 0, s |-> <<>>]

DefaultPort == 3000

LargestPort == 65535

DigitChars == <<"0", "1", "2", "3", "4", "5", "6", "7", "8", "9">>

DigitValue(ch) == (CHOOSE i \in 1..10 : DigitChars[i] = ch) - 1

\* Number(string) for a string of decimal digits
RECURSIVE ToNumber(_)
ToNumber(s) ==
    IF s = <<>> THEN 0
    ELSE 10 * ToNumber(SubSeq(s, 1, Len(s) - 1)) + DigitValue(s[Len(s)])

\* String(number) for a natural number
RECURSIVE NumberToString(_)
NumberToString(n) ==
    IF n < 10 THEN << DigitChars[n + 1] >>
    ELSE NumberToString(n \div 10) \o << DigitChars[(n % 10) + 1] >>

\* process.env.PORT || 3000: an unset or empty variable gives the default,
\* anything else the variable's text.
ConfigPort(env) ==
    IF env.type = "string" /\ env.s # <<>> THEN env ELSE JsNumber(DefaultPort)

\* config.port + 1: addition for a number, concatenation for a string.
PortPlusOne(port) ==
    IF port.type = "number" THEN JsNumber(port.n + 1)
    ELSE JsString(port.s \o NumberToString(1))

\* The port a listen call binds: the value as a number; -1 when it is out
\* of range and listen throws.
ListenPort(port) ==
    LET n == IF port.type = "number" THEN port.n ELSE ToNumber(port.s)
    IN IF n <= LargestPort THEN n ELSE -1

\* The port in the script's URL, `ws://localhost:${config.port + 1}`
ScriptPort(port) ==
    LET text == IF port.type = "number" THEN NumberToString(port.n) ELSE port.s
    IN ToNumber(text)

\* ------------------------------------------------------------------------
\* The page's form handler (handleFormSubmission)
\* ------------------------------------------------------------------------

Button(disabled, textContent) == [disabled |-> disabled, textContent |-> textContent]

\* handleFormSubmission up to the await: the button's text is remembered,
\* the button is disabled and relabelled.
SubmitBegin(button) ==
    [originalText |-> button.textContent,
     button |-> Button(TRUE, "Sending...")]

\* The rest of the try block for an outcome of fetch: a response that is
\* ok (success notification, form.reset()), a response that is not (the
\* block throws), a rejected fetch (the await throws).
SubmitTry(outcome) ==
    IF outcome = "ok"
    THEN [threw |-> FALSE, shown |-> <<"success">>, reset |-> TRUE]
    ELSE [threw |-> TRUE, shown |-> <<>>, reset |-> FALSE]

\* The handler without its catch block: what the try block threw goes on.
SubmitCatch_None(t) == t

\* The catch block: an error notification, and the exception is gone.
SubmitCatch(t) ==
    IF t.threw
    THEN [threw |-> FALSE, shown |-> Append(t.shown, "error"), reset |-> t.reset]
    ELSE t

\* handleFormSubmission after the await: try, catch and finally.
SubmitEnd(button, originalText, outcome) ==
    LET t == SubmitCatch(SubmitTry(outcome))
    IN [shown |-> t.shown,
        reset |-> t.reset,
        escapes |-> t.threw,
        button |-> Button(FALSE, originalText)]

\* ------------------------------------------------------------------------
\* The page's utilities: debounce
\* ------------------------------------------------------------------------

\* `let timeout;` and `timeout = null`: no timer id, falsy in `!timeout`,
\* ignored by clearTimeout.  The ids setTimeout returns are positive.
Unset == 0

\* setTimeout(later, wait), `later` closing over the call's arguments
DebounceTimer(id, wait, args) == [id |-> id, remaining |-> wait, args |-> args]

\* executedFunction without its clearTimeout
ExecutedFunction_NoClear(timeout, pending, id, args, immediate, wait) ==
    [timeout |-> id,
     pending |-> pending \cup {DebounceTimer(id, wait, args)},
     calls |-> IF immediate /\ timeout = Unset THEN <<args>> ELSE <<>>]

\* executedFunction(...args): `pending` are the timers not yet fired, `id`
\* the id the new timer gets, `calls` the calls of func it makes.
ExecutedFunction(timeout, pending, id, args, immediate, wait) ==
    LET callNow == immediate /\ timeout = Unset
        cleared == {t \in pending : t.id # timeout}
    IN [timeout |-> id,
        pending |-> cleared \cup {DebounceTimer(id, wait, args)},
        calls |-> IF callNow THEN <<args>> ELSE <<>>]

\* later(), the timer's callback
Later(t, immediate) ==
    [timeout |-> Unset,
     calls |-> IF ~immediate THEN <<t.args>> ELSE <<>>]

\* ------------------------------------------------------------------------
\* The page's utilities: throttle
\* ------------------------------------------------------------------------

\* The function throttle returns, without `inThrottle = true`
Throttled_NoFlag(inThrottle, pending, id, limit, outcome) ==
    IF inThrottle # "true"
    THEN [ran |-> TRUE, threw |-> outcome = "throws", inThrottle |-> inThrottle,
          pending |-> IF outcome = "throws" THEN pending
                      ELSE pending \cup {[id |-> id, remaining |-> limit]}]
    ELSE [ran |-> FALSE, threw |-> FALSE, inThrottle |-> inThrottle,
          pending |-> pending]

\* The function throttle returns: `inThrottle` is "undefined", "true" or
\* "false"; `outcome` is what func does when it is applied, it returns or it
\* throws, and what it throws leaves the function before the flag is set.
Throttled(inThrottle, pending, id, limit, outcome) ==
    IF inThrottle # "true"
    THEN IF outcome = "throws"
         THEN [ran |-> TRUE, threw |-> TRUE, inThrottle |-> inThrottle,
               pending |-> pending]
         ELSE [ran |-> TRUE, threw |-> FALSE, inThrottle |-> "true",
               pending |-> pending \cup {[id |-> id, remaining |-> limit]}]
    ELSE [ran |-> FALSE, threw |-> FALSE, inThrottle |-> inThrottle,
          pending |-> pending]

\* The timer's callback, `() => inThrottle = false`
ThrottleEnd == [ran |-> FALSE, inThrottle |-> "false"]

\* ------------------------------------------------------------------------
\* The page's navigation: the listeners of initializeNavigation and
\* initializeSmoothScrolling as functions of the navbar's state
\* ------------------------------------------------------------------------

\* The navbar: the toggle's aria-expanded attribute, the menu's and the
\* toggle's is-active class, and the element that has the focus
Navbar(aria, menu, toggle, focus) ==
    [aria |-> aria, menu |-> menu, toggle |-> toggle, focus |-> focus]

\* String(!isExpanded), the value setAttribute stores
NotExpanded(aria) == IF aria = "true" THEN "false" ELSE "true"

\* The toggle's click listener
OnToggleClick(n) == Navbar(NotExpanded(n.aria), ~n.menu, ~n.toggle, n.focus)

\* The document's click listener; `within` is where the click's target
\* lies: "toggle", "menu" or "outside"
OnDocumentClick(n, within) ==
    IF within # "toggle" /\ within # "menu"
    THEN Navbar("false", FALSE, FALSE, n.focus)
    ELSE n

\* The document's keydown listener
OnKeydown(n, key) ==
    IF key = "Escape" /\ n.menu
    THEN Navbar("false", FALSE, FALSE, "toggle")
    ELSE n

\* The click listener of an anchor link.  `target` is what
\* document.querySelector(href) gives: "found", an element; "missing",
\* null; "invalid", a SyntaxError for an href that is no selector ("#1").
OnAnchorClick(n, target) ==
    IF target = "found"
    THEN IF n.menu THEN Navbar("false", FALSE, FALSE, "target")
         ELSE Navbar(n.aria, n.menu, n.toggle, "target")
    ELSE n

\* A click: the listeners on the path from the target to the document run
\* in that order.  `link` is "none" for a target that is no anchor link.
DispatchClick(n, within, link) ==
    LET n1 == IF link = "none" THEN n ELSE OnAnchorClick(n, link)
        n2 == IF within = "toggle" THEN OnToggleClick(n1) ELSE n1
    IN OnDocumentClick(n2, within)

\* ------------------------------------------------------------------------
\* Push channel and watcher: the handlers as functions of the state
\* ------------------------------------------------------------------------

\* ws.readyState
CONNECTING == 0
OPEN == 1
CLOSING == 2
CLOSED == 3

\* The delay of the debounce timer, in milliseconds.
DebounceMs == 100

Send(c, data) == [to |-> c, data |-> data]

\* wsConnections.forEach(ws => { if (ws.readyState === 1) ws.send('reload') })
RECURSIVE ForEachSend(_, _)
ForEachSend(conns, rs) ==
    IF conns = <<>> THEN <<>>
    ELSE (IF rs[Head(conns)] = 1 THEN << Send(Head(conns), "reload") >> ELSE <<>>)
         \o ForEachSend(Tail(conns), rs)

\* Mutant: no readyState check.
BroadcastReload_NoStateCheck(conns, rs, srv) ==
    [sends |-> [i \in 1..Len(conns) |-> Send(conns[i], "reload")],
     conns |-> conns, threw |-> FALSE]

\* Mutant: connections found not open are dropped from the array.
BroadcastReload_Prune(conns, rs, srv) ==
    [sends |-> ForEachSend(conns, rs),
     conns |-> SelectSeq(conns, LAMBDA c : rs[c] = 1), threw |-> FALSE]

\* Mutant: iterates wsServer.clients, a TypeError when wsServer is undefined.
BroadcastReload_ServerClients(conns, rs, srv) ==
    IF srv THEN [sends |-> ForEachSend(conns, rs), conns |-> conns, threw |-> FALSE]
    ELSE [sends |-> <<>>, conns |-> conns, threw |-> TRUE]

\* Mutant: tests readyState against CONNECTING instead of OPEN.
BroadcastReload_WrongState(conns, rs, srv) ==
    [sends |-> ForEachSend(conns, [c \in DOMAIN rs |-> IF rs[c] = 0 THEN 1 ELSE 0]),
     conns |-> conns, threw |-> FALSE]

\* broadcastReload: the messages it sends in order, the connection array it
\* leaves, and whether it throws.  It does not read wsServer.
BroadcastReload(conns, rs, srv) ==
    IF Len(conns) > 0
    THEN [sends |-> ForEachSend(conns, rs), conns |-> conns, threw |-> FALSE]
    ELSE [sends |-> <<>>, conns |-> conns, threw |-> FALSE]

\* Mutant: no try/catch around the require.
CreateWebSocketServer_NoCatch(module) ==
    IF module = "installed" THEN [server |-> TRUE, threw |-> FALSE]
    ELSE [server |-> FALSE, threw |-> TRUE]

\* createWebSocketServer: require('ws') throws when the package is missing,
\* the catch logs two warnings and wsServer stays undefined.
CreateWebSocketServer(module) ==
    IF module = "installed" THEN [server |-> TRUE, threw |-> FALSE]
    ELSE [server |-> FALSE, threw |-> FALSE]

\* process.exit(code)
Exited(code) == IF code = 0 THEN "exit0" ELSE "exit1"

\* server.on('error'): a message that depends on err.code, then exit(1).
OnServerError(code) == 1

\* Mutant: the handlers log and return.
OnFatal_LogOnly(kind) == -1

\* process.on('uncaughtException') and process.on('unhandledRejection'):
\* the exit code, -1 for no exit.
OnFatal(kind) ==
    CASE kind = "uncaughtException" -> 1
      [] kind = "unhandledRejection" -> 1

Drained(state, socks) ==
    state # "listening" /\ \A k \in DOMAIN socks : socks[k] = "none"

\* server.close(cb) in the SIGINT handler: the callback waits for the
\* 'close' event; a listening server stops listening; the event is queued
\* once the server is not listening and has no connection left.  Whether
\* idle keep-alive connections are closed at once depends on the runtime's
\* http.Server.close (closesIdle).
ServerClose(state, socks, callbacks, closesIdle) ==
    LET left == [k \in DOMAIN socks |->
                    IF closesIdle /\ socks[k] = "idle" THEN "none" ELSE socks[k]]
        after == IF state = "listening" THEN "closed" ELSE state
    IN [listener |-> after,
        sockets |-> left,
        callbacks |-> callbacks + 1,
        log |-> IF state = "listening" THEN << "closeListener" >> ELSE <<>>,
        closePending |-> Drained(after, left)]

\* Mutant: the callback of server.close leaves the push server alone.
ShutdownCallback_SkipPush(srv) == << "exit0" >>

\* The callback passed to server.close: wsServer.close() when a push server
\* exists, then process.exit(0).
ShutdownCallback(srv) ==
    IF srv THEN << "closePush", "exit0" >> ELSE << "exit0" >>

\* wsServer.on('connection'): wsConnections.push(ws)
OnConnection(conns, ws) == Append(conns, ws)

\* Mutant: the close handler drops the newest connection.
OnClose_Pop(conns, ws) == SubSeq(conns, 1, Len(conns) - 1)

\* ws.on('close'): wsConnections = wsConnections.filter(conn => conn !== ws)
OnClose(conns, ws) == SelectSeq(conns, LAMBDA conn : conn # ws)

Timer(id, eventType, filePath) ==
    [id |-> id, remaining |-> DebounceMs, eventType |-> eventType, filePath |-> filePath]

\* Mutant: the pending timer is not cleared.
ScheduleReload_NoClear(pending, handle, id, eventType, filePath) ==
    pending \cup {Timer(id, eventType, filePath)}

\* scheduleReload: clearTimeout(reloadTimer), then setTimeout(..., 100).
\* pending is the set of timers the runtime holds, handle is reloadTimer.
ScheduleReload(pending, handle, id, eventType, filePath) ==
    {t \in pending : t.id # handle} \cup {Timer(id, eventType, filePath)}

\* The injected script's ws.onmessage: reload the page on 'reload'.
OnMessageReloads(data) == data = "reload"

\* The injected script's constants.
maxReconnectAttempts == 10

reconnectInterval == 2000

\* ws.onopen: the counter is reset.
ClientOnOpen(attempts) == 0

\* Mutant: one more retry is allowed.
ClientOnClose_OffByOne(attempts) ==
    IF attempts <= maxReconnectAttempts
    THEN [retry |-> TRUE, delay |-> reconnectInterval]
    ELSE [retry |-> FALSE, delay |-> 0]

\* ws.onclose: a retry timer is set while the counter is below the maximum.
ClientOnClose(attempts) ==
    IF attempts < maxReconnectAttempts
    THEN [retry |-> TRUE, delay |-> reconnectInterval]
    ELSE [retry |-> FALSE, delay |-> 0]

\* The retry timer's callback: reconnectAttempts++ and connect().
ClientRetry(attempts) == attempts + 1

\* An onerror that sets a retry timer as onclose does
ClientOnError_Retries(attempts) == ClientOnClose(attempts)

\* ws.onerror: the error is logged, no timer is set.
ClientOnError(attempts) == [retry |-> FALSE, delay |-> 0]

\* ------------------------------------------------------------------------
\* State
\* ------------------------------------------------------------------------

VARIABLES
    \* the process and the module-level state of server.js
    proc,           \* "running", or "exit1" after an uncaught exception
    wsServer,       \* TRUE when createWebSocketServer built the push server
    wsConnections,  \* the array of registered connections, in push order
    \* path computation of one request (SpecResolve)
    rUrl,           \* req.url
    rPc,            \* "received", "resolved", "reading"
    rFilePath,      \* urlPath handed to serveFile
    rFullPath,      \* fullPath handed to fs.readFile
    \* HTTP requests (SpecHttp)
    reqState,       \* per request: "idle", "reading", "done"
    reqUrl,         \* req.url
    reqFile,        \* filePath captured by the readFile callback
    readErr,        \* what fs.readFile reported
    readData,       \* the content the read returned, NoData on error
    resLog,         \* the calls made on res, in order
    after404,       \* the request arrived after some 404 had been sent
    \* push channel and watcher (SpecPush)
    readyState,     \* per connection object: ws.readyState
    wsEvents,       \* per connection: "none", "connection", "close" (last event fired)
    inflight,       \* per connection: messages sent and not yet received, in order
    tabReloaded,    \* per connection: the tab called window.location.reload()
    sawChange,      \* per connection: a file event arrived while it was open,
                    \* and it is still open and has not reloaded
    timers,         \* the timers the runtime holds
    reloadTimer,    \* the handle scheduleReload keeps (0: undefined)
    sinceLast,      \* ms since the last file event, capped above the window
    nEvents,        \* file events so far
    burstLen,       \* events of the current burst: each less than a window
                    \* after the one before
    bcastInBurst,   \* calls of broadcastReload since the current burst began
    bcastSaw        \* what the last broadcastReload found: "none" (no call yet),
                    \* "empty", "allOpen", "someNotOpen"

\* getMimeType called on its own
VARIABLES
    mPath,          \* the argument filePath
    mPc,            \* "idle", "called", "returned", "threw"
    mType           \* the value returned

mimeVars == <<mPath, mPc, mType>>

\* Start-up and shutdown of the process
VARIABLES
    wsModule,       \* "installed" or "missing": whether require('ws') succeeds
    listener,       \* the HTTP server: "binding", "listening", "closed"
    liveReload,     \* the listen callback, which sets up live reload, has run
    closeCallbacks, \* callbacks of server.close waiting for the 'close' event
    sockets,        \* HTTP connections: "none", "idle", "active"
    shutdownLog,    \* what the shutdown did, in order
    sigints,        \* interrupt signals received
    watching,       \* setupFileWatcher() has run
    closePending,   \* the listener's 'close' event is queued for the next tick
    fatal           \* the fatal event that reached the process, "none" if none

lifeVars == <<wsModule, listener, liveReload, closeCallbacks, sockets, shutdownLog, sigints,
              watching, closePending, fatal>>

\* The injected script, one instance per browser tab
VARIABLES
    scriptState,        \* "unloaded", "connecting", "open", "waiting", "gaveUp"
    reconnectAttempts,  \* the script's counter
    retryDelay,         \* delay of the pending retry timer, 0 when none
    viaRetry,           \* the current connection was started by a retry timer
    failedRetries       \* retries in a row that ended without an open

clientVars == <<scriptState, reconnectAttempts, retryDelay, viaRetry, failedRetries>>
\* The ports chosen at start-up
VARIABLES
    envPort,        \* process.env.PORT
    configPort,     \* config.port
    httpPort,       \* the port the HTTP server listens on, -1 for none
    wsPort,         \* the port the push server listens on, -1 for none
    scriptPort,     \* the port in the injected script's URL
    portPc          \* "idle", "loading", "configured", "listening", "started", "exit1"

portVars == <<envPort, configPort, httpPort, wsPort, scriptPort, portPc>>
\* The page's form
VARIABLES
    submitButton,    \* the form's submit button: disabled, textContent
    subState,        \* each submission: "none", "pending", or its outcome
    subOriginalText, \* originalText of each running handler
    notifications,   \* the notifications shown, in order
    formFields,      \* what the form's field holds
    formResets,      \* the number of form.reset() calls
    unhandled        \* the handler runs that ended with an exception

formVars == <<submitButton, subState, subOriginalText, notifications,
              formFields, formResets, unhandled>>
\* The page's debounced functions, one made without the immediate flag and
\* one with it, indexed by the flag
VARIABLES
    dWait,        \* the `wait` both were made with, in ticks
    dTimeout,     \* each closure's `timeout`
    dPending,     \* the timers set and neither fired nor cleared
    dIds,         \* the timer ids handed out
    dCalls,       \* the calls of debounced functions made
    dSince,       \* ticks since each function's last call, capped
    dBurst,       \* the number of each function's current burst
    dBurstLen,    \* the calls in the current burst
    dBurstArgs,   \* the arguments of the latest call of each burst
    dLog          \* the calls of func each function made

debounceVars == <<dWait, dTimeout, dPending, dIds, dCalls, dSince, dBurst,
                  dBurstLen, dBurstArgs, dLog>>

\* The page's throttled function
VARIABLES
    tLimit,       \* the `limit` it was made with, in ticks
    inThrottle,   \* the closure's flag: "undefined", "true", "false"
    tPending,     \* the timers set and not yet fired
    tCalls,       \* the calls of the throttled function made
    tRuns,        \* the runs of func
    tSinceOpen,   \* ticks since the run of func that opened the latest window, capped
    tLog          \* for each call: whether a window was running, whether func ran

throttleVars == <<tLimit, inThrottle, tPending, tCalls, tRuns, tSinceOpen, tLog>>

\* The page's navbar
VARIABLES
    navbar,       \* aria-expanded, the two is-active classes, the focus
    navLog        \* the events dispatched, in order

navVars == <<navbar, navLog>>

\* One instance of the injected script, with every WebSocket it made
VARIABLES
    pageStarted,  \* connect() has been called for the loaded document
    pageSockets,  \* each WebSocket made: "connecting", "open", "failing", "closed"
    pageTimers,   \* the reconnect timers set and not yet fired
    pageAttempts, \* reconnectAttempts
    pageRetries   \* the reconnect timers fired since the page loaded

scriptVars == <<pageStarted, pageSockets, pageTimers, pageAttempts, pageRetries>>

pageVars == <<debounceVars, throttleVars, navVars, scriptVars>>
extVars == <<mimeVars, lifeVars, clientVars, portVars, formVars, pageVars>>

resolveVars == <<rUrl, rPc, rFilePath, rFullPath>>
httpVars == <<reqState, reqUrl, reqFile, readErr, readData, resLog, after404>>
connVars == <<readyState, wsEvents, inflight, tabReloaded, sawChange>>
watchVars == <<timers, reloadTimer, sinceLast, nEvents, burstLen, bcastInBurst, bcastSaw>>
pushVars == <<connVars, watchVars>>
sharedVars == <<proc, wsServer, wsConnections>>
vars == <<sharedVars, resolveVars, httpVars, pushVars, extVars>>

NoPath == <<>>

\* ------------------------------------------------------------------------
\* SpecResolve: one request, from req.url to the path that is read
\* ------------------------------------------------------------------------

Alphabet == {"/", ".", "a", "?", "\\"}

\* Request targets: origin-form and arbitrary strings over Alphabet, and the
\* same after an absolute-form scheme ("x://").
Schemes == {<<>>, <<"x", ":", "/", "/">>}

Strings(n) == UNION {[1..k -> Alphabet] : k \in 0..n}

RequestTargets == {sc \o s : sc \in Schemes, s \in Strings(MaxLen)}

InitShared ==
    /\ proc = "running"
    /\ wsServer \in BOOLEAN
    /\ wsConnections = <<>>

Requests == 1..MaxRequests

\* What a file can hold: up to MaxPieces pieces.
Pieces == {"x", "0xE9", "</body>", "</BODY>"}

FileContents == UNION {[1..k -> Pieces] : k \in 0..MaxPieces}

\* data when the read failed (undefined)
NoData == << "undefined" >>

InitHttpIdle ==
    /\ reqState = [r \in Requests |-> "idle"]
    /\ reqUrl = [r \in Requests |-> NoPath]
    /\ reqFile = [r \in Requests |-> NoPath]
    /\ readErr = [r \in Requests |-> "pending"]
    /\ readData = [r \in Requests |-> NoData]
    /\ resLog = [r \in Requests |-> <<>>]
    /\ after404 = [r \in Requests |-> FALSE]

Conns == 1..MaxConns

InitPushIdle ==
    /\ readyState = [c \in Conns |-> CONNECTING]
    /\ wsEvents = [c \in Conns |-> "none"]
    /\ inflight = [c \in Conns |-> <<>>]
    /\ tabReloaded = [c \in Conns |-> FALSE]
    /\ sawChange = [c \in Conns |-> FALSE]
    /\ timers = {}
    /\ reloadTimer = 0
    /\ sinceLast = DebounceMs + 1
    /\ nEvents = 0
    /\ burstLen = 0
    /\ bcastInBurst = 0
    /\ bcastSaw = "none"

InitMimeIdle ==
    /\ mPath = NoPath
    /\ mPc = "idle"
    /\ mType = NoType

Sockets == 1..MaxSockets

\* The server is up: the listen callback has run.
InitLifeRunning ==
    /\ wsModule = IF wsServer THEN "installed" ELSE "missing"
    /\ listener = "listening"
    /\ liveReload = TRUE
    /\ closeCallbacks = 0
    /\ sockets = [k \in Sockets |-> "none"]
    /\ shutdownLog = <<>>
    /\ sigints = 0
    /\ watching = TRUE
    /\ closePending = FALSE
    /\ fatal = "none"

Tabs == 1..MaxTabs

\* No page has loaded the script yet.
InitClientIdle ==
    /\ scriptState = [t \in Tabs |-> "unloaded"]
    /\ reconnectAttempts = [t \in Tabs |-> 0]
    /\ retryDelay = [t \in Tabs |-> 0]
    /\ viaRetry = [t \in Tabs |-> FALSE]
    /\ failedRetries = [t \in Tabs |-> 0]

InitPortIdle ==
    /\ envPort = NoEnv
    /\ configPort = JsNumber(DefaultPort)
    /\ httpPort = DefaultPort
    /\ wsPort = -1
    /\ scriptPort = -1
    /\ portPc = "idle"

Submissions == 1..MaxSubmits

\* The label of the submit button in the page's markup.
ButtonLabel == "Send"

\* The value of the form's field in the page's markup, and what a user types.
DefaultField == ""
FieldValues == {DefaultField, "a"}

\* No form has been submitted.
InitFormIdle ==
    /\ submitButton = Button(FALSE, ButtonLabel)
    /\ subState = [i \in Submissions |-> "none"]
    /\ subOriginalText = [i \in Submissions |-> ""]
    /\ notifications = <<>>
    /\ formFields = DefaultField
    /\ formResets = 0
    /\ unhandled = 0

Flags == BOOLEAN

\* No debounced function has been called.
InitDebounceIdle ==
    /\ dWait = 1
    /\ dTimeout = [f \in Flags |-> Unset]
    /\ dPending = {}
    /\ dIds = 0
    /\ dCalls = 0
    /\ dSince = [f \in Flags |-> 2]
    /\ dBurst = [f \in Flags |-> 0]
    /\ dBurstLen = [f \in Flags |-> 0]
    /\ dBurstArgs = [f \in Flags |-> <<>>]
    /\ dLog = [f \in Flags |-> <<>>]

\* The throttled function has not been called.
InitThrottleIdle ==
    /\ tLimit = 1
    /\ inThrottle = "undefined"
    /\ tPending = {}
    /\ tCalls = 0
    /\ tRuns = 0
    /\ tSinceOpen = 2
    /\ tLog = <<>>

\* The page as loaded: the menu is closed.
InitNavIdle ==
    /\ navbar = Navbar("false", FALSE, FALSE, "body")
    /\ navLog = <<>>

\* The script has been parsed: the counter is set, connect() not yet called.
InitScriptIdle ==
    /\ pageStarted = FALSE
    /\ pageSockets = <<>>
    /\ pageTimers = 0
    /\ pageAttempts = 0
    /\ pageRetries = 0

InitPageIdle ==
    /\ InitDebounceIdle
    /\ InitThrottleIdle
    /\ InitNavIdle
    /\ InitScriptIdle

InitExtIdle ==
    /\ InitMimeIdle
    /\ InitLifeRunning
    /\ InitClientIdle
    /\ InitPortIdle
    /\ InitFormIdle
    /\ InitPageIdle

InitResolveIdle ==
    /\ rUrl = NoPath
    /\ rPc = "idle"
    /\ rFilePath = NoPath
    /\ rFullPath = NoPath

InitResolve ==
    /\ InitShared
    /\ InitHttpIdle
    /\ InitPushIdle
    /\ InitExtIdle
    /\ rUrl \in RequestTargets
    /\ rPc = "received"
    /\ rFilePath = NoPath
    /\ rFullPath = NoPath

\* createHttpServer's request callback up to the call of serveFile.
HandleRequest ==
    /\ rPc = "received"
    /\ rFilePath' = ResolveUrlPath(rUrl)
    /\ rPc' = "resolved"
    /\ UNCHANGED <<rUrl, rFullPath, sharedVars, httpVars, pushVars, extVars>>

\* serveFile up to the call of fs.readFile.
ServeFileJoin ==
    /\ rPc = "resolved"
    /\ rFullPath' = FullPath(rFilePath)
    /\ rPc' = "reading"
    /\ UNCHANGED <<rUrl, rFilePath, sharedVars, httpVars, pushVars, extVars>>

NextResolve == HandleRequest \/ ServeFileJoin

SpecResolve == InitResolve /\ [][NextResolve]_vars

\* ------------------------------------------------------------------------
\* SpecMime: getMimeType on one path
\* ------------------------------------------------------------------------

MimeAlphabet == {".", "/", "j", "s", "J", "c", "x"}

MimePaths == UNION {[1..k -> MimeAlphabet] : k \in 0..MaxLen}

InitMime ==
    /\ InitShared
    /\ InitResolveIdle
    /\ InitHttpIdle
    /\ InitPushIdle
    /\ mPath \in MimePaths
    /\ mPc = "called"
    /\ mType = NoType
    /\ InitLifeRunning
    /\ InitClientIdle
    /\ InitPortIdle
    /\ InitFormIdle
    /\ InitPageIdle

\* The call getMimeType(filePath) and its return.
GetMimeTypeCall ==
    /\ mPc = "called"
    /\ mType' = GetMimeType(mPath)
    /\ mPc' = "returned"
    /\ UNCHANGED <<mPath, lifeVars, clientVars, portVars, formVars, pageVars, sharedVars, resolveVars, httpVars,
                   pushVars>>

NextMime == GetMimeTypeCall

SpecMime == InitMime /\ [][NextMime]_vars

\* ------------------------------------------------------------------------
\* SpecHttp: requests, file reads and responses
\* ------------------------------------------------------------------------

HttpUrls ==
    { <<"/">>,
      <<"/", "a", ".", "c", "s", "s">>,
      <<"/", "n", "?", "v">>,
      <<"x", ":", "/", "/", ".", ".", "/", ".", ".">> }

Sent404(log) == \E i \in 1..Len(log) : log[i].op = "writeHead" /\ log[i].status = 404

InitHttp ==
    /\ InitShared
    /\ InitResolveIdle
    /\ InitHttpIdle
    /\ InitPushIdle
    /\ InitExtIdle

\* The request callback of createHttpServer: computes the file path and
\* calls serveFile, which starts the asynchronous read.
Request(r, url) ==
    /\ proc = "running"
    /\ listener = "listening"
    /\ reqState[r] = "idle"
    /\ IF r = 1 THEN TRUE ELSE reqState[r - 1] # "idle"
    /\ reqState' = [reqState EXCEPT ![r] = "reading"]
    /\ reqUrl' = [reqUrl EXCEPT ![r] = url]
    /\ reqFile' = [reqFile EXCEPT ![r] = ResolveUrlPath(url)]
    /\ after404' = [after404 EXCEPT ![r] = \E q \in Requests : Sent404(resLog[q])]
    /\ UNCHANGED <<readErr, readData, resLog, sharedVars, resolveVars, pushVars, extVars>>

\* The callback of fs.readFile for request r, with the error or the content
\* read.  An exception leaving the callback reaches the process's
\* uncaughtException handler: exit(1).
ReadDone(r, err, data) ==
    /\ proc = "running"
    /\ reqState[r] = "reading"
    /\ err \in ReadOutcomes(FullPath(reqFile[r]))
    /\ data \in (IF err = NoError THEN FileContents ELSE {NoData})
    /\ LET ran == RunOps(resLog[r], ServeFileCallback(err, data, reqFile[r], wsServer))
       IN /\ resLog' = [resLog EXCEPT ![r] = ran.log]
          /\ proc' = IF ran.threw THEN "exit1" ELSE proc
    /\ readErr' = [readErr EXCEPT ![r] = err]
    /\ readData' = [readData EXCEPT ![r] = data]
    /\ reqState' = [reqState EXCEPT ![r] = "done"]
    /\ UNCHANGED <<reqUrl, reqFile, after404, wsServer, wsConnections, resolveVars, pushVars, extVars>>

ReadErrors == {NoError, "ENOENT", "EACCES", "EISDIR"}

NextHttp ==
    \/ \E r \in Requests, url \in HttpUrls : Request(r, url)
    \/ \E r \in Requests, err \in ReadErrors, data \in FileContents \cup {NoData} :
           ReadDone(r, err, data)

SpecHttp == InitHttp /\ [][NextHttp]_vars

\* The step in which the read of request r completes, whatever it reports:
\* a ReadDone(r, err, data) step.  It is enabled exactly when some ReadDone is,
\* is, since ReadOutcomes is never empty.
ReadCompletes(r) ==
    /\ proc = "running"
    /\ reqState[r] = "reading"
    /\ reqState' = [reqState EXCEPT ![r] = "done"]

\* A started read always completes: fs.readFile calls back exactly once.
FairSpecHttp == SpecHttp /\ \A r \in Requests : WF_reqState(ReadCompletes(r))

\* ------------------------------------------------------------------------
\* SpecPush: watcher events, debounce timer, connection set, broadcast
\* ------------------------------------------------------------------------

EventTypes == {"Changed", "Added", "Removed"}

WatchedPaths == {"src/index.html", "src/css/styles.css"}

TickMs == DebounceMs \div TicksPerWindow

Min(a, b) == IF a < b THEN a ELSE b

SetMin(S) == CHOOSE x \in S : \A y \in S : x <= y

DueTimers == {t \in timers : t.remaining = 0}

Registered(c) == \E i \in 1..Len(wsConnections) : wsConnections[i] = c

InitPush ==
    /\ InitShared
    /\ InitResolveIdle
    /\ InitHttpIdle
    /\ InitPushIdle
    /\ InitExtIdle

\* wsServer 'connection' event for a new connection object c, which is open.
Connect(c) ==
    /\ proc = "running"
    /\ wsServer
    /\ wsEvents[c] = "none"
    /\ IF c = 1 THEN TRUE ELSE wsEvents[c - 1] # "none"
    /\ wsConnections' = OnConnection(wsConnections, c)
    /\ readyState' = [readyState EXCEPT ![c] = OPEN]
    /\ wsEvents' = [wsEvents EXCEPT ![c] = "connection"]
    /\ UNCHANGED <<proc, wsServer, inflight, tabReloaded, sawChange, watchVars,
                   resolveVars, httpVars, extVars>>

\* The connection starts to close (the tab is closed or reloads, or the
\* network drops): readyState becomes CLOSING, the close event is yet to come.
SocketClosing(c) ==
    /\ proc = "running"
    /\ readyState[c] = OPEN
    /\ readyState' = [readyState EXCEPT ![c] = CLOSING]
    /\ sawChange' = [sawChange EXCEPT ![c] = FALSE]
    /\ UNCHANGED <<sharedVars, wsEvents, inflight, tabReloaded, watchVars,
                   resolveVars, httpVars, extVars>>

\* The connection's 'close' event: readyState is CLOSED when the handler
\* runs.  What was still in flight to it is lost.
CloseEvent(c) ==
    /\ proc = "running"
    /\ readyState[c] = CLOSING
    /\ wsEvents[c] = "connection"
    /\ readyState' = [readyState EXCEPT ![c] = CLOSED]
    /\ wsConnections' = OnClose(wsConnections, c)
    /\ wsEvents' = [wsEvents EXCEPT ![c] = "close"]
    /\ inflight' = [inflight EXCEPT ![c] = <<>>]
    /\ UNCHANGED <<proc, wsServer, tabReloaded, sawChange, watchVars,
                   resolveVars, httpVars, extVars>>

\* The tab receives the oldest message on an open connection: ws.onmessage.
Deliver(c) ==
    /\ inflight[c] # <<>>
    /\ readyState[c] = OPEN
    /\ ~tabReloaded[c]
    /\ inflight' = [inflight EXCEPT ![c] = Tail(@)]
    /\ tabReloaded' = [tabReloaded EXCEPT ![c] = OnMessageReloads(Head(inflight[c]).data)]
    /\ sawChange' = [sawChange EXCEPT ![c] = @ /\ ~OnMessageReloads(Head(inflight[c]).data)]
    /\ UNCHANGED <<sharedVars, readyState, wsEvents, watchVars, resolveVars, httpVars, extVars>>

\* A watcher event (change, add, unlink): scheduleReload.  An expired timer
\* runs before later events are delivered (the loop's timer phase).
FileEvent(eventType, filePath) ==
    /\ proc = "running"
    /\ liveReload
    /\ nEvents < MaxEvents
    /\ DueTimers = {}
    /\ timers' = ScheduleReload(timers, reloadTimer, nEvents + 1, eventType, filePath)
    /\ reloadTimer' = nEvents + 1
    /\ nEvents' = nEvents + 1
    /\ burstLen' = IF sinceLast >= DebounceMs THEN 1 ELSE burstLen + 1
    /\ bcastInBurst' = IF sinceLast >= DebounceMs THEN 0 ELSE bcastInBurst
    /\ sinceLast' = 0
    /\ sawChange' = [c \in Conns |->
                        sawChange[c] \/ (Registered(c) /\ readyState[c] = OPEN
                                         /\ ~tabReloaded[c])]
    /\ UNCHANGED <<sharedVars, readyState, wsEvents, inflight, tabReloaded,
                   bcastSaw, resolveVars, httpVars, extVars>>

\* Time passes, at most up to the next timer's expiry.
Tick ==
    /\ proc = "running"
    /\ DueTimers = {}
    /\ timers # {} \/ sinceLast <= DebounceMs
    /\ LET d == IF timers = {} THEN TickMs
                ELSE Min(TickMs, SetMin({t.remaining : t \in timers}))
       IN /\ timers' = {[t EXCEPT !.remaining = @ - d] : t \in timers}
          /\ sinceLast' = Min(DebounceMs + 1, sinceLast + d)
    /\ UNCHANGED <<sharedVars, connVars, reloadTimer, nEvents, burstLen, bcastInBurst,
                   bcastSaw, resolveVars, httpVars, extVars>>

\* What a call of broadcastReload finds in the connection array.
Found(conns, rs) ==
    IF conns = <<>> THEN "empty"
    ELSE IF \A i \in 1..Len(conns) : rs[conns[i]] = OPEN THEN "allOpen"
    ELSE "someNotOpen"

\* The debounce timer's callback: broadcastReload().  An exception leaving
\* it reaches the process's uncaughtException handler: exit(1).
TimerFire(t) ==
    /\ proc = "running"
    /\ t \in DueTimers
    /\ timers' = timers \ {t}
    /\ LET b == BroadcastReload(wsConnections, readyState, wsServer)
       IN /\ wsConnections' = b.conns
          /\ inflight' = [c \in Conns |->
                 inflight[c] \o SelectSeq(b.sends, LAMBDA m : m.to = c)]
          /\ proc' = IF b.threw THEN "exit1" ELSE proc
    /\ bcastInBurst' = bcastInBurst + 1
    /\ bcastSaw' = Found(wsConnections, readyState)
    /\ UNCHANGED <<wsServer, readyState, wsEvents, tabReloaded, sawChange, reloadTimer,
                   sinceLast, nEvents, burstLen, resolveVars, httpVars, extVars>>

NextPush ==
    \/ \E c \in Conns : Connect(c)
    \/ \E c \in Conns : SocketClosing(c)
    \/ \E c \in Conns : CloseEvent(c)
    \/ \E c \in Conns : Deliver(c)
    \/ \E e \in EventTypes, f \in WatchedPaths : FileEvent(e, f)
    \/ Tick
    \/ \E t \in timers : TimerFire(t)

SpecPush == InitPush /\ [][NextPush]_vars

\* Scheduling: time passes, expired timers run, messages on an open
\* connection arrive, and a closing connection's close event fires.
FairSpecPush ==
    /\ SpecPush
    /\ WF_vars(Tick)
    /\ WF_vars(\E t \in timers : TimerFire(t))
    /\ \A c \in Conns : WF_vars(Deliver(c))
    /\ \A c \in Conns : WF_vars(CloseEvent(c))

\* ------------------------------------------------------------------------
\* SpecDegraded: the server on a machine where the ws package is missing
\* ------------------------------------------------------------------------

DegradedContents == { <<>>, << "x", "</body>" >> }

InitDegraded ==
    /\ proc = "running"
    /\ wsServer = FALSE
    /\ wsConnections = <<>>
    /\ InitResolveIdle
    /\ InitHttpIdle
    /\ InitPushIdle
    /\ InitMimeIdle
    /\ InitClientIdle
    /\ InitPortIdle
    /\ InitFormIdle
    /\ InitPageIdle
    /\ wsModule = "missing"
    /\ listener = "listening"
    /\ liveReload = FALSE
    /\ closeCallbacks = 0
    /\ sockets = [k \in Sockets |-> "none"]
    /\ shutdownLog = <<>>
    /\ sigints = 0
    /\ watching = FALSE
    /\ closePending = FALSE
    /\ fatal = "none"

\* The listen callback: createWebSocketServer(); setupFileWatcher().  An
\* exception leaving it reaches the uncaughtException handler: exit(1).
StartLiveReload ==
    /\ proc = "running"
    /\ listener = "listening"
    /\ ~liveReload
    /\ LET made == CreateWebSocketServer(wsModule)
       IN /\ wsServer' = made.server
          /\ proc' = IF made.threw THEN "exit1" ELSE proc
          /\ liveReload' = TRUE
          /\ watching' = ~made.threw
          /\ fatal' = IF made.threw THEN "uncaughtException" ELSE fatal
    /\ UNCHANGED <<wsConnections, wsModule, listener, closeCallbacks, sockets, shutdownLog,
                   sigints, closePending, mimeVars, portVars, formVars, pageVars, clientVars, resolveVars, httpVars,
                   pushVars>>

NextDegraded ==
    \/ StartLiveReload
    \/ \E r \in Requests, url \in HttpUrls : liveReload /\ Request(r, url)
    \/ \E r \in Requests, err \in ReadErrors, data \in DegradedContents \cup {NoData} :
           ReadDone(r, err, data)
    \/ \E e \in EventTypes, f \in WatchedPaths : FileEvent(e, f)
    \/ Tick
    \/ \E t \in timers : TimerFire(t)

SpecDegraded == InitDegraded /\ [][NextDegraded]_vars

FairSpecDegraded == SpecDegraded /\ \A r \in Requests : WF_reqState(ReadCompletes(r))

\* ------------------------------------------------------------------------
\* SpecClient: the injected script in each tab
\* ------------------------------------------------------------------------

InitClient ==
    /\ InitShared
    /\ InitResolveIdle
    /\ InitHttpIdle
    /\ InitPushIdle
    /\ InitMimeIdle
    /\ InitLifeRunning
    /\ InitClientIdle
    /\ InitPortIdle
    /\ InitFormIdle
    /\ InitPageIdle

\* The page has loaded: connect().
PageLoad(t) ==
    /\ scriptState[t] = "unloaded"
    /\ scriptState' = [scriptState EXCEPT ![t] = "connecting"]
    /\ UNCHANGED <<reconnectAttempts, retryDelay, viaRetry, failedRetries, mimeVars, portVars, formVars, pageVars,
                   lifeVars, sharedVars, resolveVars, httpVars, pushVars>>

\* ws.onopen
SocketOpens(t) ==
    /\ scriptState[t] = "connecting"
    /\ scriptState' = [scriptState EXCEPT ![t] = "open"]
    /\ reconnectAttempts' = [reconnectAttempts EXCEPT ![t] = ClientOnOpen(@)]
    /\ failedRetries' = [failedRetries EXCEPT ![t] = 0]
    /\ UNCHANGED <<retryDelay, viaRetry, mimeVars, portVars, formVars, pageVars, lifeVars, sharedVars, resolveVars,
                   httpVars, pushVars>>

\* ws.onclose, for a connection that never opened or for an open one.
SocketCloses(t) ==
    /\ scriptState[t] \in {"connecting", "open"}
    /\ LET next == ClientOnClose(reconnectAttempts[t])
       IN /\ scriptState' = [scriptState EXCEPT
                                ![t] = IF next.retry THEN "waiting" ELSE "gaveUp"]
          /\ retryDelay' = [retryDelay EXCEPT ![t] = next.delay]
    /\ failedRetries' = [failedRetries EXCEPT
                            ![t] = IF scriptState[t] = "connecting" /\ viaRetry[t]
                                   THEN @ + 1 ELSE @]
    /\ UNCHANGED <<reconnectAttempts, viaRetry, mimeVars, portVars, formVars, pageVars, lifeVars, sharedVars,
                   resolveVars, httpVars, pushVars>>

\* The retry timer expires.
RetryTimer(t) ==
    /\ scriptState[t] = "waiting"
    /\ reconnectAttempts' = [reconnectAttempts EXCEPT ![t] = ClientRetry(@)]
    /\ scriptState' = [scriptState EXCEPT ![t] = "connecting"]
    /\ retryDelay' = [retryDelay EXCEPT ![t] = 0]
    /\ viaRetry' = [viaRetry EXCEPT ![t] = TRUE]
    /\ UNCHANGED <<failedRetries, mimeVars, portVars, formVars, pageVars, lifeVars, sharedVars, resolveVars, httpVars,
                   pushVars>>

\* ws.onmessage with the reload token: the page reloads and its new script
\* instance starts over.
ReloadMessage(t) ==
    /\ scriptState[t] = "open"
    /\ OnMessageReloads("reload")
    /\ scriptState' = [scriptState EXCEPT ![t] = "connecting"]
    /\ reconnectAttempts' = [reconnectAttempts EXCEPT ![t] = 0]
    /\ viaRetry' = [viaRetry EXCEPT ![t] = FALSE]
    /\ failedRetries' = [failedRetries EXCEPT ![t] = 0]
    /\ UNCHANGED <<retryDelay, mimeVars, portVars, formVars, pageVars, lifeVars, sharedVars, resolveVars, httpVars,
                   pushVars>>

NextClient ==
    \/ \E t \in Tabs : PageLoad(t)
    \/ \E t \in Tabs : SocketOpens(t)
    \/ \E t \in Tabs : SocketCloses(t)
    \/ \E t \in Tabs : RetryTimer(t)
    \/ \E t \in Tabs : ReloadMessage(t)

SpecClient == InitClient /\ [][NextClient]_vars

\* A connection attempt ends, opened or closed.
AttemptEnds(t) ==
    /\ scriptState[t] = "connecting"
    /\ SocketOpens(t) \/ SocketCloses(t)

\* The browser settles every connection attempt and runs every timer.
FairSpecClient ==
    /\ SpecClient
    /\ \A t \in Tabs : WF_vars(AttemptEnds(t))
    /\ \A t \in Tabs : WF_vars(RetryTimer(t))

\* ------------------------------------------------------------------------
\* SpecLife: start-up, fatal events, interrupt and shutdown
\* ------------------------------------------------------------------------

InitLife ==
    /\ proc = "running"
    /\ wsServer = FALSE
    /\ wsConnections = <<>>
    /\ InitResolveIdle
    /\ InitHttpIdle
    /\ InitPushIdle
    /\ InitMimeIdle
    /\ InitClientIdle
    /\ InitPortIdle
    /\ InitFormIdle
    /\ InitPageIdle
    /\ wsModule \in {"installed", "missing"}
    /\ listener = "binding"
    /\ liveReload = FALSE
    /\ closeCallbacks = 0
    /\ sockets = [k \in Sockets |-> "none"]
    /\ shutdownLog = <<>>
    /\ sigints = 0
    /\ watching = FALSE
    /\ closePending = FALSE
    /\ fatal = "none"

\* Nothing else runs between a step and the callbacks it queued for the
\* same tick: the listen callback after 'listening', the close callbacks
\* after the 'close' event was queued.
Settled == ~closePending /\ (listener = "listening" => liveReload)

\* server.listen succeeds: the server is listening, the listen callback is
\* next.
ListenSucceeds ==
    /\ proc = "running"
    /\ listener = "binding"
    /\ ~closePending
    /\ listener' = "listening"
    /\ UNCHANGED <<wsModule, liveReload, closeCallbacks, sockets, shutdownLog, sigints,
                   watching, closePending, fatal, mimeVars, portVars, formVars, pageVars, clientVars, sharedVars,
                   resolveVars, httpVars, pushVars>>

\* server.listen fails: the server's 'error' handler.
ListenFails(code) ==
    /\ proc = "running"
    /\ listener = "binding"
    /\ ~closePending
    /\ proc' = Exited(OnServerError(code))
    /\ fatal' = "bind"
    /\ UNCHANGED <<wsServer, wsConnections, wsModule, listener, liveReload, closeCallbacks,
                   sockets, shutdownLog, sigints, watching, closePending, mimeVars, portVars, formVars, pageVars,
                   clientVars, resolveVars, httpVars, pushVars>>

\* An uncaught exception or an unhandled rejection reaches the process.
Fault(kind) ==
    /\ proc = "running"
    /\ Settled
    /\ fatal = "none"
    /\ fatal' = kind
    /\ proc' = IF OnFatal(kind) >= 0 THEN Exited(OnFatal(kind)) ELSE proc
    /\ UNCHANGED <<wsServer, wsConnections, wsModule, listener, liveReload, closeCallbacks,
                   sockets, shutdownLog, sigints, watching, closePending, mimeVars, portVars, formVars, pageVars,
                   clientVars, resolveVars, httpVars, pushVars>>

\* The SIGINT handler: server.close(callback).
Sigint(closesIdle) ==
    /\ proc = "running"
    /\ Settled
    /\ sigints < MaxSigints
    /\ sigints' = sigints + 1
    /\ LET c == ServerClose(listener, sockets, closeCallbacks, closesIdle)
       IN /\ listener' = c.listener
          /\ sockets' = c.sockets
          /\ closeCallbacks' = c.callbacks
          /\ shutdownLog' = shutdownLog \o c.log
          /\ closePending' = c.closePending
    /\ UNCHANGED <<wsModule, liveReload, watching, fatal, mimeVars, portVars, formVars, pageVars, clientVars, sharedVars,
                   resolveVars, httpVars, pushVars>>

\* The listener's 'close' event: the first callback registered by
\* server.close runs and ends the process.
EmitClose ==
    /\ proc = "running"
    /\ closePending
    /\ closeCallbacks > 0
    /\ LET did == ShutdownCallback(wsServer)
       IN /\ shutdownLog' = shutdownLog \o did
          /\ proc' = IF did[Len(did)] = "exit0" THEN Exited(0) ELSE proc
    /\ closePending' = FALSE
    /\ closeCallbacks' = 0
    /\ UNCHANGED <<wsServer, wsConnections, wsModule, listener, liveReload, sockets, sigints,
                   watching, fatal, mimeVars, portVars, formVars, pageVars, clientVars, resolveVars, httpVars, pushVars>>

\* A client opens an HTTP connection.
SocketOpen(k) ==
    /\ proc = "running"
    /\ Settled
    /\ listener = "listening"
    /\ sockets[k] = "none"
    /\ sockets' = [sockets EXCEPT ![k] = "idle"]
    /\ UNCHANGED <<wsModule, listener, liveReload, closeCallbacks, shutdownLog, sigints,
                   watching, closePending, fatal, mimeVars, portVars, formVars, pageVars, clientVars, sharedVars,
                   resolveVars, httpVars, pushVars>>

\* A request arrives on an open connection, also after the listener closed.
SocketRequest(k) ==
    /\ proc = "running"
    /\ Settled
    /\ sockets[k] = "idle"
    /\ sockets' = [sockets EXCEPT ![k] = "active"]
    /\ UNCHANGED <<wsModule, listener, liveReload, closeCallbacks, shutdownLog, sigints,
                   watching, closePending, fatal, mimeVars, portVars, formVars, pageVars, clientVars, sharedVars,
                   resolveVars, httpVars, pushVars>>

\* The response is finished; the connection is kept alive.
SocketResponse(k) ==
    /\ proc = "running"
    /\ Settled
    /\ sockets[k] = "active"
    /\ sockets' = [sockets EXCEPT ![k] = "idle"]
    /\ UNCHANGED <<wsModule, listener, liveReload, closeCallbacks, shutdownLog, sigints,
                   watching, closePending, fatal, mimeVars, portVars, formVars, pageVars, clientVars, sharedVars,
                   resolveVars, httpVars, pushVars>>

\* The connection ends; the 'close' event is queued when a closing server
\* has no connection left.
SocketEnds(k) ==
    /\ sockets' = [sockets EXCEPT ![k] = "none"]
    /\ closePending' = (closeCallbacks > 0 /\ Drained(listener, sockets'))
    /\ UNCHANGED <<wsModule, listener, liveReload, closeCallbacks, shutdownLog, sigints,
                   watching, fatal, mimeVars, portVars, formVars, pageVars, clientVars, sharedVars, resolveVars, httpVars,
                   pushVars>>

\* The client closes its connection.
ClientCloses(k) ==
    /\ proc = "running"
    /\ Settled
    /\ sockets[k] # "none"
    /\ SocketEnds(k)

\* The server closes a connection that stayed idle for keepAliveTimeout.
IdleTimeout(k) ==
    /\ proc = "running"
    /\ Settled
    /\ sockets[k] = "idle"
    /\ SocketEnds(k)

NextLife ==
    \/ ListenSucceeds
    \/ \E code \in {"EADDRINUSE", "EACCES"} : ListenFails(code)
    \/ StartLiveReload
    \/ \E kind \in {"uncaughtException", "unhandledRejection"} : Fault(kind)
    \/ \E closesIdle \in BOOLEAN : Sigint(closesIdle)
    \/ EmitClose
    \/ \E k \in Sockets : SocketOpen(k)
    \/ \E k \in Sockets : SocketRequest(k)
    \/ \E k \in Sockets : SocketResponse(k)
    \/ \E k \in Sockets : ClientCloses(k)
    \/ \E k \in Sockets : IdleTimeout(k)
    \/ \E c \in Conns : Settled /\ Connect(c)
    \/ \E c \in Conns : Settled /\ SocketClosing(c)
    \/ \E c \in Conns : Settled /\ CloseEvent(c)

SpecLife == InitLife /\ [][NextLife]_vars

\* The runtime runs queued callbacks, finishes responses and times out idle
\* connections; what clients do is not constrained.
FairSpecLife ==
    /\ SpecLife
    /\ WF_vars(StartLiveReload)
    /\ WF_vars(EmitClose)
    /\ \A k \in Sockets : WF_vars(SocketResponse(k))
    /\ \A k \in Sockets : WF_vars(IdleTimeout(k))

\* ------------------------------------------------------------------------
\* SpecPort: the ports chosen at start-up
\* ------------------------------------------------------------------------

PortDigits == {"0", "3", "8"}

EnvPorts ==
    {NoEnv} \cup {JsString(s) : s \in UNION {[1..k -> PortDigits] : k \in 0..MaxPortDigits}}

InitPort ==
    /\ InitShared
    /\ InitResolveIdle
    /\ InitHttpIdle
    /\ InitPushIdle
    /\ InitMimeIdle
    /\ InitLifeRunning
    /\ InitClientIdle
    /\ InitFormIdle
    /\ InitPageIdle
    /\ envPort \in EnvPorts
    /\ configPort = NoEnv
    /\ httpPort = -1
    /\ wsPort = -1
    /\ scriptPort = -1
    /\ portPc = "loading"

\* The module is loaded: config is built.
LoadConfig ==
    /\ portPc = "loading"
    /\ configPort' = ConfigPort(envPort)
    /\ portPc' = "configured"
    /\ UNCHANGED <<envPort, httpPort, wsPort, scriptPort, mimeVars, formVars, pageVars, lifeVars, clientVars,
                   sharedVars, resolveVars, httpVars, pushVars>>

\* server.listen(config.port, config.host): a port out of range throws.
ListenHttp ==
    /\ portPc = "configured"
    /\ httpPort' = ListenPort(configPort)
    /\ portPc' = IF ListenPort(configPort) >= 0 THEN "listening" ELSE "exit1"
    /\ UNCHANGED <<envPort, configPort, wsPort, scriptPort, mimeVars, formVars, pageVars, lifeVars, clientVars,
                   sharedVars, resolveVars, httpVars, pushVars>>

\* createWebSocketServer with the ws package installed: the push server
\* listens on config.port + 1 (a throw for a port out of range is caught),
\* and the script's URL is built from the same expression.
StartPushPort ==
    /\ portPc = "listening"
    /\ wsPort' = ListenPort(PortPlusOne(configPort))
    /\ scriptPort' = ScriptPort(PortPlusOne(configPort))
    /\ portPc' = "started"
    /\ UNCHANGED <<envPort, configPort, httpPort, mimeVars, formVars, pageVars, lifeVars, clientVars,
                   sharedVars, resolveVars, httpVars, pushVars>>

NextPort == LoadConfig \/ ListenHttp \/ StartPushPort

SpecPort == InitPort /\ [][NextPort]_vars

\* ------------------------------------------------------------------------
\* SpecForm: submit events on one form
\* ------------------------------------------------------------------------

FetchOutcomes == {"ok", "notOk", "networkError"}

InitForm ==
    /\ InitShared
    /\ InitResolveIdle
    /\ InitHttpIdle
    /\ InitPushIdle
    /\ InitMimeIdle
    /\ InitLifeRunning
    /\ InitClientIdle
    /\ InitPortIdle
    /\ InitFormIdle
    /\ InitPageIdle

\* A submit event: the handler runs up to its await.
Submit(i) ==
    /\ subState[i] = "none"
    /\ IF i = 1 THEN TRUE ELSE subState[i - 1] # "none"
    /\ LET b == SubmitBegin(submitButton)
       IN /\ submitButton' = b.button
          /\ subOriginalText' = [subOriginalText EXCEPT ![i] = b.originalText]
    /\ subState' = [subState EXCEPT ![i] = "pending"]
    /\ UNCHANGED <<notifications, formFields, formResets, unhandled, pageVars, mimeVars, lifeVars, clientVars, portVars, sharedVars,
                   resolveVars, httpVars, pushVars>>

\* The fetch of submission i settles: the handler resumes after the await.
FetchSettles(i, outcome) ==
    /\ subState[i] = "pending"
    /\ LET d == SubmitEnd(submitButton, subOriginalText[i], outcome)
       IN /\ submitButton' = d.button
          /\ notifications' = notifications \o d.shown
          /\ formFields' = IF d.reset THEN DefaultField ELSE formFields
          /\ formResets' = IF d.reset THEN formResets + 1 ELSE formResets
          /\ unhandled' = IF d.escapes THEN unhandled + 1 ELSE unhandled
    /\ subState' = [subState EXCEPT ![i] = outcome]
    /\ UNCHANGED <<subOriginalText, pageVars, mimeVars, lifeVars, clientVars, portVars, sharedVars,
                   resolveVars, httpVars, pushVars>>

\* The user edits the form's field.
Input(v) ==
    /\ formFields # v
    /\ formFields' = v
    /\ UNCHANGED <<submitButton, subState, subOriginalText, notifications,
                   formResets, unhandled, pageVars, mimeVars, lifeVars, clientVars,
                   portVars, sharedVars, resolveVars, httpVars, pushVars>>

NextForm ==
    \/ \E v \in FieldValues : Input(v)
    \/ \E i \in Submissions : Submit(i)
    \/ \E i \in Submissions, outcome \in FetchOutcomes : FetchSettles(i, outcome)

SpecForm == InitForm /\ [][NextForm]_vars

\* ------------------------------------------------------------------------
\* SpecDebounce: calls of two debounced functions and the passing of time
\* ------------------------------------------------------------------------

Waits == 1..MaxWait
CallArgs == {"a", "b"}

InitDebounce ==
    /\ InitShared
    /\ InitResolveIdle
    /\ InitHttpIdle
    /\ InitPushIdle
    /\ InitMimeIdle
    /\ InitLifeRunning
    /\ InitClientIdle
    /\ InitPortIdle
    /\ InitFormIdle
    /\ dWait \in Waits
    /\ dTimeout = [f \in Flags |-> Unset]
    /\ dPending = {}
    /\ dIds = 0
    /\ dCalls = 0
    /\ dSince = [f \in Flags |-> dWait + 1]
    /\ dBurst = [f \in Flags |-> 0]
    /\ dBurstLen = [f \in Flags |-> 0]
    /\ dBurstArgs = [f \in Flags |-> <<>>]
    /\ dLog = [f \in Flags |-> <<>>]
    /\ InitThrottleIdle
    /\ InitNavIdle
    /\ InitScriptIdle

notDebounce == <<sharedVars, resolveVars, httpVars, pushVars, mimeVars, lifeVars,
                 clientVars, portVars, formVars, throttleVars, navVars, scriptVars>>

DebounceDue == {t \in dPending : t.remaining = 0}

\* A call of func by the function made with flag f
FuncCall(f, args, since, burst, nth) ==
    [args |-> args, since |-> since, burst |-> burst, nth |-> nth]

\* The function made with flag f is called with argument a.  A call less
\* than `wait` after the function's previous call continues its burst.
\* A timer that is due runs before anything else happens.
DebouncedCall(f, a) ==
    /\ dCalls < MaxCalls
    /\ DebounceDue = {}
    /\ LET mine == {t \in dPending : t.f = f}
           x == ExecutedFunction(dTimeout[f], {[id |-> t.id, remaining |-> t.remaining,
                                               args |-> t.args] : t \in mine},
                                 dIds + 1, a, f, dWait)
           fresh == dSince[f] >= dWait
           burst == IF fresh THEN dBurst[f] + 1 ELSE dBurst[f]
           nth == IF fresh THEN 1 ELSE dBurstLen[f] + 1
       IN /\ dTimeout' = [dTimeout EXCEPT ![f] = x.timeout]
          /\ dPending' = (dPending \ mine) \cup
                          {[f |-> f, id |-> t.id, remaining |-> t.remaining,
                            args |-> t.args] : t \in x.pending}
          /\ dBurst' = [dBurst EXCEPT ![f] = burst]
          /\ dBurstLen' = [dBurstLen EXCEPT ![f] = nth]
          /\ dBurstArgs' = [dBurstArgs EXCEPT ![f] =
                                IF fresh THEN Append(@, a)
                                ELSE [@ EXCEPT ![burst] = a]]
          /\ dLog' = [dLog EXCEPT ![f] =
                          @ \o [k \in 1..Len(x.calls) |->
                                   FuncCall(f, x.calls[k], 0, burst, nth)]]
    /\ dIds' = dIds + 1
    /\ dCalls' = dCalls + 1
    /\ dSince' = [dSince EXCEPT ![f] = 0]
    /\ UNCHANGED <<dWait, notDebounce>>

\* One tick passes, while no timer is due.
DebounceTick ==
    /\ DebounceDue = {}
    /\ dPending # {} \/ \E f \in Flags : dSince[f] <= dWait
    /\ dPending' = {[t EXCEPT !.remaining = @ - 1] : t \in dPending}
    /\ dSince' = [f \in Flags |-> Min(dWait + 1, dSince[f] + 1)]
    /\ UNCHANGED <<dWait, dTimeout, dIds, dCalls, dBurst, dBurstLen, dBurstArgs,
                   dLog, notDebounce>>

\* A timer fires: later() runs.
LaterFires(t) ==
    /\ t \in DebounceDue
    /\ dPending' = dPending \ {t}
    /\ LET x == Later(t, t.f)
       IN /\ dTimeout' = [dTimeout EXCEPT ![t.f] = x.timeout]
          /\ dLog' = [dLog EXCEPT ![t.f] =
                          @ \o [k \in 1..Len(x.calls) |->
                                   FuncCall(t.f, x.calls[k], dSince[t.f],
                                            dBurst[t.f], dBurstLen[t.f])]]
    /\ UNCHANGED <<dWait, dIds, dCalls, dSince, dBurst, dBurstLen, dBurstArgs,
                   notDebounce>>

NextDebounce ==
    \/ \E f \in Flags, a \in CallArgs : DebouncedCall(f, a)
    \/ DebounceTick
    \/ \E t \in dPending : LaterFires(t)

SpecDebounce == InitDebounce /\ [][NextDebounce]_vars

\* ------------------------------------------------------------------------
\* SpecThrottle: calls of a throttled function and the passing of time
\* ------------------------------------------------------------------------

Limits == 1..MaxWait
FuncOutcomes == {"returns", "throws"}

InitThrottle ==
    /\ InitShared
    /\ InitResolveIdle
    /\ InitHttpIdle
    /\ InitPushIdle
    /\ InitMimeIdle
    /\ InitLifeRunning
    /\ InitClientIdle
    /\ InitPortIdle
    /\ InitFormIdle
    /\ InitDebounceIdle
    /\ InitNavIdle
    /\ InitScriptIdle
    /\ tLimit \in Limits
    /\ inThrottle = "undefined"
    /\ tPending = {}
    /\ tCalls = 0
    /\ tRuns = 0
    /\ tSinceOpen = tLimit + 1
    /\ tLog = <<>>

notThrottle == <<sharedVars, resolveVars, httpVars, pushVars, mimeVars, lifeVars,
                 clientVars, portVars, formVars, debounceVars, navVars, scriptVars>>

ThrottleDue == {t \in tPending : t.remaining = 0}

\* The throttled function is called.  A window runs for `limit` ticks from
\* a run of func that returned.  A timer that is due runs before anything
\* else happens.
ThrottledCall(outcome) ==
    /\ tCalls < MaxCalls
    /\ ThrottleDue = {}
    /\ LET x == Throttled(inThrottle, tPending, tCalls + 1, tLimit, outcome)
       IN /\ inThrottle' = x.inThrottle
          /\ tPending' = x.pending
          /\ tRuns' = IF x.ran THEN tRuns + 1 ELSE tRuns
          /\ tSinceOpen' = IF x.ran /\ ~x.threw THEN 0 ELSE tSinceOpen
          /\ tLog' = Append(tLog, [window |-> tSinceOpen < tLimit, ran |-> x.ran,
                                    threw |-> x.threw])
    /\ tCalls' = tCalls + 1
    /\ UNCHANGED <<tLimit, notThrottle>>

\* One tick passes, while no timer is due.
ThrottleTick ==
    /\ ThrottleDue = {}
    /\ tPending # {} \/ tSinceOpen <= tLimit
    /\ tPending' = {[t EXCEPT !.remaining = @ - 1] : t \in tPending}
    /\ tSinceOpen' = Min(tLimit + 1, tSinceOpen + 1)
    /\ UNCHANGED <<tLimit, inThrottle, tCalls, tRuns, tLog, notThrottle>>

\* A timer fires: the window's end.
ThrottleTimerFires(t) ==
    /\ t \in ThrottleDue
    /\ tPending' = tPending \ {t}
    /\ inThrottle' = ThrottleEnd.inThrottle
    /\ tRuns' = IF ThrottleEnd.ran THEN tRuns + 1 ELSE tRuns
    /\ UNCHANGED <<tLimit, tCalls, tSinceOpen, tLog, notThrottle>>

NextThrottle ==
    \/ \E outcome \in FuncOutcomes : ThrottledCall(outcome)
    \/ ThrottleTick
    \/ \E t \in tPending : ThrottleTimerFires(t)

SpecThrottle == InitThrottle /\ [][NextThrottle]_vars

\* ------------------------------------------------------------------------
\* SpecNav: clicks and key presses on the page
\* ------------------------------------------------------------------------

\* Where a click lands, and the anchor link it lands on, if any.  An anchor
\* link lies in the menu or elsewhere on the page, not in the toggle button.
ClickPlaces == {"toggle", "menu", "outside"}
LinkTargets == {"found", "missing", "invalid"}
Keys == {"Escape", "Tab"}

InitNav ==
    /\ InitShared
    /\ InitResolveIdle
    /\ InitHttpIdle
    /\ InitPushIdle
    /\ InitMimeIdle
    /\ InitLifeRunning
    /\ InitClientIdle
    /\ InitPortIdle
    /\ InitFormIdle
    /\ InitDebounceIdle
    /\ InitThrottleIdle
    /\ InitNavIdle
    /\ InitScriptIdle

notNav == <<sharedVars, resolveVars, httpVars, pushVars, mimeVars, lifeVars,
            clientVars, portVars, formVars, debounceVars, throttleVars, scriptVars>>

NavEvent(kind, within, link) == [kind |-> kind, within |-> within, link |-> link]

\* A click on the toggle, in the menu or outside both, on no link
Click(within) ==
    /\ Len(navLog) < MaxNavEvents
    /\ navbar' = DispatchClick(navbar, within, "none")
    /\ navLog' = Append(navLog, NavEvent("click", within, "none"))
    /\ UNCHANGED notNav

\* A click on a same-page anchor link, in the menu or outside it
AnchorLinkClick(within, link) ==
    /\ Len(navLog) < MaxNavEvents
    /\ within # "toggle"
    /\ navbar' = DispatchClick(navbar, within, link)
    /\ navLog' = Append(navLog, NavEvent("click", within, link))
    /\ UNCHANGED notNav

\* A key is pressed.
KeyPress(key) ==
    /\ Len(navLog) < MaxNavEvents
    /\ navbar' = OnKeydown(navbar, key)
    /\ navLog' = Append(navLog, NavEvent(key, "none", "none"))
    /\ UNCHANGED notNav

NextNav ==
    \/ \E within \in ClickPlaces : Click(within)
    \/ \E within \in ClickPlaces, link \in LinkTargets : AnchorLinkClick(within, link)
    \/ \E key \in Keys : KeyPress(key)

SpecNav == InitNav /\ [][NextNav]_vars

\* ------------------------------------------------------------------------
\* SpecScript: one instance of the injected script and its WebSockets
\* ------------------------------------------------------------------------

InitScript ==
    /\ InitShared
    /\ InitResolveIdle
    /\ InitHttpIdle
    /\ InitPushIdle
    /\ InitMimeIdle
    /\ InitLifeRunning
    /\ InitClientIdle
    /\ InitPortIdle
    /\ InitFormIdle
    /\ InitDebounceIdle
    /\ InitThrottleIdle
    /\ InitNavIdle
    /\ InitScriptIdle

notScript == <<sharedVars, resolveVars, httpVars, pushVars, mimeVars, lifeVars,
               clientVars, portVars, formVars, debounceVars, throttleVars, navVars>>

PageSocketIds == 1..Len(pageSockets)

\* The WebSockets that are connecting or open, those still to fire close
LiveSockets == {i \in PageSocketIds : pageSockets[i] \in {"connecting", "open"}}
Unclosed == {i \in PageSocketIds : pageSockets[i] # "closed"}

\* connect(): a new WebSocket
ScriptConnect(socks) == Append(socks, "connecting")

\* The document is ready: connect(), once.
DomReady ==
    /\ ~pageStarted
    /\ pageStarted' = TRUE
    /\ pageSockets' = ScriptConnect(pageSockets)
    /\ UNCHANGED <<pageTimers, pageAttempts, pageRetries, notScript>>

\* The open event of a WebSocket
OpenEvent(i) ==
    /\ pageSockets[i] = "connecting"
    /\ pageSockets' = [pageSockets EXCEPT ![i] = "open"]
    /\ pageAttempts' = ClientOnOpen(pageAttempts)
    /\ UNCHANGED <<pageStarted, pageTimers, pageRetries, notScript>>

\* The error event of a WebSocket, connecting or open: onerror logs.  The
\* browser fails the connection; its close event is still to come.
ErrorEvent(i) ==
    /\ pageSockets[i] \in {"connecting", "open"}
    /\ pageSockets' = [pageSockets EXCEPT ![i] = "failing"]
    /\ pageTimers' = IF ClientOnError(pageAttempts).retry
                     THEN pageTimers + 1 ELSE pageTimers
    /\ UNCHANGED <<pageStarted, pageAttempts, pageRetries, notScript>>

\* The close event of a WebSocket, once for each
PageCloseEvent(i) ==
    /\ pageSockets[i] # "closed"
    /\ pageSockets' = [pageSockets EXCEPT ![i] = "closed"]
    /\ pageTimers' = IF ClientOnClose(pageAttempts).retry
                     THEN pageTimers + 1 ELSE pageTimers
    /\ UNCHANGED <<pageStarted, pageAttempts, pageRetries, notScript>>

\* A reconnect timer fires: reconnectAttempts++ and connect().
ReconnectTimer ==
    /\ pageTimers > 0
    /\ Len(pageSockets) < MaxPageSockets
    /\ pageTimers' = pageTimers - 1
    /\ pageAttempts' = ClientRetry(pageAttempts)
    /\ pageSockets' = ScriptConnect(pageSockets)
    /\ pageRetries' = pageRetries + 1
    /\ UNCHANGED <<pageStarted, notScript>>

NextScript ==
    \/ DomReady
    \/ \E i \in PageSocketIds : OpenEvent(i)
    \/ \E i \in PageSocketIds : ErrorEvent(i)
    \/ \E i \in PageSocketIds : PageCloseEvent(i)
    \/ ReconnectTimer

SpecScript == InitScript /\ [][NextScript]_vars

\* ------------------------------------------------------------------------
\* Path predicates
\* ------------------------------------------------------------------------

IsPrefix(p, s) == Len(p) <= Len(s) /\ SubSeq(s, 1, Len(p)) = p

\* fullPath is the static root or a path below it.
InsideStaticDir(fullPath) ==
    \/ fullPath = StaticDir
    \/ IsPrefix(StaticDir \o <<"/">>, fullPath)

\* The segments of a path that name something: no empty and no '.' segments.
NameSegments(p) == SelectSeq(Segments(p), LAMBDA seg : seg # <<>> /\ seg # <<".">>)

\* C1: for every request URL the path serveFile reads is the static root or
\* a path below it.
C1_NeverOutsideRoot ==
    rPc = "reading" => InsideStaticDir(rFullPath)

OneResponse(log, err) ==
    /\ Len(log) = 2
    /\ log[1].op = "writeHead"
    /\ log[2].op = "end"
    /\ log[1].status = IF err = NoError THEN 200 ELSE 404

C8_ResponseShape ==
    \A r \in Requests :
        /\ reqState[r] # "done" => resLog[r] = <<>>
        /\ reqState[r] = "done" => OneResponse(resLog[r], readErr[r])

\* C8: every accepted request gets exactly one response, a header write
\* followed by an end of body, 200 when the read succeeded and 404 when it
\* failed; nothing is written before the read completes, no request is
\* answered twice, and every accepted request is eventually answered.
C8_ExactlyOneResponse ==
    /\ []C8_ResponseShape
    /\ \A r \in Requests : (reqState[r] = "reading") ~> Finished(resLog[r])

\* Two requests whose reads overlapped, answered in the reverse order of
\* their arrival: one 200 and one 404.
C8_Witness ==
    /\ reqState[1] = "reading"
    /\ reqState[2] = "done"
    /\ resLog[2] = << WriteHead(200, "text/css; charset=utf-8", NoLength), End(<< "x" >>) >>
    /\ reqUrl[1] = <<"/", "n", "?", "v">>

\* C9: a request whose file cannot be read, for any reason, is answered 404
\* with content type text/html; the process keeps running, and a request
\* that arrives after a 404 is answered as well.
C9_ReadFailureIs404 ==
    \A r \in Requests :
        reqState[r] = "done" =>
            /\ readErr[r] # NoError =>
                   /\ resLog[r] = << WriteHead(404, "text/html; charset=utf-8", NoLength),
                                     End(NotFoundPage(reqFile[r])) >>
                   /\ IncludesTextHtml(resLog[r][1].ctype)
                   /\ proc = "running"
            /\ after404[r] => OneResponse(resLog[r], readErr[r])

\* A read error other than a missing file was answered 404, and a request
\* that arrived afterwards was answered 200.
C9_Witness ==
    /\ reqState[1] = "done" /\ readErr[1] = "EACCES" /\ Sent404(resLog[1])
    /\ reqState[2] = "done" /\ after404[2] /\ readErr[2] = NoError
    /\ resLog[2][1].status = 200
    /\ proc = "running"

\* ------------------------------------------------------------------------
\* Debounce and broadcast
\* ------------------------------------------------------------------------

\* A step that runs broadcastReload.
BroadcastStep == \E t \in timers : TimerFire(t)

\* C2: a burst of file events, each less than the debounce window after the
\* one before, causes exactly one call of broadcastReload, after the burst's
\* last event: none while the burst lasts, one once the window has passed
\* since its last event, never a second, and none before the first event.
C2_OneBroadcastPerBurst ==
    /\ bcastInBurst <= 1
    /\ nEvents = 0 => bcastInBurst = 0
    /\ sinceLast < DebounceMs => bcastInBurst = 0
    /\ (nEvents > 0 /\ sinceLast > DebounceMs) => bcastInBurst = 1

\* A burst of three events has been answered by one broadcast.
C2_Witness ==
    /\ burstLen = 3
    /\ bcastInBurst = 1
    /\ sinceLast > DebounceMs

\* C3 as claimed: a tab that was connected when a watched file changed is
\* eventually sent "reload" and reloads.
C3_TabEventuallyReloads ==
    \A c \in Conns : sawChange[c] ~> tabReloaded[c]

\* C3 as amended: a tab that was connected when a watched file changed
\* eventually reloads, unless its connection stops being open first (the
\* model's watcher events are finitely many, so the timer is not restarted
\* forever).
C3_ReloadsUnlessClosed ==
    \A c \in Conns : sawChange[c] ~> (tabReloaded[c] \/ readyState[c] # OPEN)

\* A tab saw a change, stayed connected and reloaded.
C3_Witness ==
    \E c \in Conns : tabReloaded[c] /\ readyState[c] = OPEN /\ bcastInBurst = 1

\* C4: a call of broadcastReload sends exactly one message to every
\* registered connection that is open and none to any other, and every
\* message ever sent is "reload".
C4_OneReloadPerOpenConnection ==
    /\ [](\A c \in Conns : \A i \in 1..Len(inflight[c]) :
             inflight[c][i] = Send(c, "reload"))
    /\ [][BroadcastStep =>
             \A c \in Conns :
                 inflight'[c] = inflight[c] \o
                     (IF Registered(c) /\ readyState[c] = OPEN
                      THEN << Send(c, "reload") >> ELSE <<>>)]_vars

\* After a broadcast that found a connection not open: the open one has its
\* message, the closing one, still registered, has none.
C4_Witness ==
    /\ bcastSaw = "someNotOpen"
    /\ wsConnections = <<1, 2>>
    /\ readyState[1] = CLOSING /\ inflight[1] = <<>>
    /\ readyState[2] = OPEN /\ inflight[2] = << Send(2, "reload") >>
    /\ timers = {}

\* C5: the connection array holds exactly the connections whose connection
\* event has fired and whose close event has not, each of them once.
C5_ConnectionSetExact ==
    /\ \A c \in Conns : Registered(c) <=> wsEvents[c] = "connection"
    /\ Len(wsConnections) = Cardinality(Range(wsConnections))

\* A client disconnected before a broadcast ran; the other one is still in.
C5_Witness ==
    /\ wsEvents[1] = "close"
    /\ wsEvents[2] = "connection"
    /\ wsConnections = <<2>>
    /\ bcastSaw = "allOpen"

\* C6: broadcastReload leaves the connection array as it is, and a
\* connection leaves the array only in its own close handler.
C6_BroadcastKeepsConnections ==
    [][/\ BroadcastStep => wsConnections' = wsConnections
       /\ \A c \in Conns :
              (Registered(c) /\ ~(\E i \in 1..Len(wsConnections') : wsConnections'[i] = c))
                  => CloseEvent(c)]_vars

\* A broadcast found a connection that was not open, and it is still there.
C6_Witness ==
    /\ bcastSaw = "someNotOpen"
    /\ \E c \in Conns : Registered(c) /\ readyState[c] = CLOSING
    /\ timers = {}
    /\ sinceLast = DebounceMs

\* C7: a call of broadcastReload on an empty connection array sends nothing,
\* changes nothing and does not throw.
C7_EmptyBroadcastIsNoOp ==
    [][(BroadcastStep /\ wsConnections = <<>>) =>
           /\ proc' = "running"
           /\ UNCHANGED <<wsConnections, wsServer, reloadTimer, connVars>>]_vars

\* A broadcast ran with no push server and no connection.
C7_Witness ==
    /\ bcastSaw = "empty"
    /\ ~wsServer
    /\ wsConnections = <<>>
    /\ proc = "running"

EqualsIgnoreCase(a, b) ==
    /\ Len(a) = Len(b)
    /\ \A i \in 1..Len(a) : LowerChar(a[i]) = LowerChar(b[i])

\* C11: getMimeType returns a content type for every path: the fixed
\* table's entry when the path's extension, compared without regard to case,
\* is one of the table's keys; otherwise the library lookup's result when
\* there is one, and application/octet-stream when there is none.
C11_MimeContract ==
    mPc = "returned" =>
        /\ mType # NoType
        /\ IF \E k \in CustomKeys : EqualsIgnoreCase(Extname(mPath), k)
           THEN \E k \in CustomKeys :
                    EqualsIgnoreCase(Extname(mPath), k) /\ mType = CustomMimeType(k)
           ELSE IF LibraryMimeType(mPath) # NoType
           THEN mType = LibraryMimeType(mPath)
           ELSE mType = "application/octet-stream"

\* An extension with an upper-case letter that is a key of the table has been
\* classified.
C11_Witness ==
    /\ mPc = "returned"
    /\ mPath = <<"x", ".", "J", "s">>
    /\ mType = "application/javascript; charset=utf-8"


\* ------------------------------------------------------------------------
\* Response bodies
\* ------------------------------------------------------------------------

\* A closing body tag, in either case (HTML tag names are case-insensitive).
IsClosingBodyTag(piece) == piece \in {"</body>", "</BODY>"}

HasClosingBodyTag(content) == \E i \in 1..Len(content) : IsClosingBodyTag(content[i])

\* body is content with the reload script put right before a closing body
\* tag and nothing else changed.
ScriptBeforeBodyClose(content, body) ==
    \E i \in 1..Len(content) :
        /\ IsClosingBodyTag(content[i])
        /\ body = SubSeq(content, 1, i - 1) \o << ScriptPiece >>
                     \o SubSeq(content, i, Len(content))

Served200(r) ==
    /\ reqState[r] = "done"
    /\ Len(resLog[r]) = 2
    /\ resLog[r][1].status = 200

ServedHtmlLive(r) == Served200(r) /\ IncludesTextHtml(resLog[r][1].ctype) /\ wsServer

\* C12: for every file with a closing body tag that is served with an HTML
\* content type while a push server exists, the 200 body is the file's
\* content with the reload script inserted immediately before the closing
\* body tag, and Content-Length is the byte length of that body.
C12_ScriptBeforeBodyClose ==
    \A r \in Requests :
        ServedHtmlLive(r) /\ HasClosingBodyTag(readData[r]) =>
            /\ ScriptBeforeBodyClose(readData[r], resLog[r][2].body)
            /\ resLog[r][1].clen = ByteLength(resLog[r][2].body)

\* C13: a 200 response for a file whose content type is not HTML, or sent
\* while no push server exists, carries exactly the content read and no
\* reload script; a 404 response never carries the reload script.
C13_UnmodifiedOtherwise ==
    \A r \in Requests :
        /\ Served200(r) /\ ~(IncludesTextHtml(resLog[r][1].ctype) /\ wsServer) =>
               /\ resLog[r][2].body = readData[r]
               /\ ScriptPiece \notin Range(resLog[r][2].body)
        /\ reqState[r] = "done" /\ readErr[r] # NoError =>
               \A i \in 1..Len(resLog[r]) : ScriptPiece \notin Range(resLog[r][i].body)

\* With a push server: a stylesheet whose text holds a closing body tag was
\* served as read, and another request was answered 404.
C13_Witness ==
    /\ wsServer
    /\ Served200(1)
    /\ reqUrl[1] = <<"/", "a", ".", "c", "s", "s">>
    /\ readData[1] = << "x", "</body>" >>
    /\ resLog[1][2].body = << "x", "</body>" >>
    /\ reqState[2] = "done"
    /\ readErr[2] = "ENOENT"

\* ------------------------------------------------------------------------
\* Missing push dependency
\* ------------------------------------------------------------------------

AnsweredWithoutLiveReload(r) ==
    /\ OneResponse(resLog[r], readErr[r])
    /\ readErr[r] = NoError =>
           /\ resLog[r][2].body = readData[r]
           /\ resLog[r][1].clen = NoLength

C14_Degraded ==
    liveReload /\ wsModule = "missing" =>
        /\ ~wsServer
        /\ proc = "running"
        /\ wsConnections = <<>>
        /\ \A c \in Conns : ~ENABLED Connect(c)
        /\ bcastSaw \in {"none", "empty"}
        /\ \A c \in Conns : inflight[c] = <<>>
        /\ \A r \in Requests : reqState[r] = "done" => AnsweredWithoutLiveReload(r)

\* C14: when the ws package cannot be loaded, createWebSocketServer catches
\* the failure: no push server exists afterwards, the process keeps running,
\* a later file change broadcasts to nobody and raises nothing, and every
\* HTTP request is answered, 200 with the file as read or 404.
C14_MissingDependencyDegrades ==
    /\ []C14_Degraded
    /\ \A r \in Requests : (reqState[r] = "reading") ~> Finished(resLog[r])

\* Without the package: a file change has been broadcast to nobody, and an
\* HTML file with a closing body tag has been served as read.
C14_Witness ==
    /\ liveReload
    /\ wsModule = "missing"
    /\ bcastSaw = "empty"
    /\ Served200(1)
    /\ reqUrl[1] = <<"/">>
    /\ resLog[1][2].body = << "x", "</body>" >>

\* ------------------------------------------------------------------------
\* Client reconnection
\* ------------------------------------------------------------------------

C15_RetryShape ==
    \A t \in Tabs :
        /\ scriptState[t] = "waiting" =>
               /\ retryDelay[t] = reconnectInterval
               /\ failedRetries[t] < maxReconnectAttempts
        /\ scriptState[t] = "gaveUp" => failedRetries[t] = maxReconnectAttempts

\* C15: after its connection closes the script retries at the fixed
\* interval; once 10 retries in a row have ended without an open it sets no
\* further timer and stays given up; and from every state it reaches one
\* where it is connected or has given up.
C15_RetriesThenGivesUp ==
    /\ []C15_RetryShape
    /\ [][\A t \in Tabs : scriptState[t] = "gaveUp" => scriptState'[t] = "gaveUp"]_vars
    /\ \A t \in Tabs :
           (scriptState[t] \in {"connecting", "waiting"})
               ~> (scriptState[t] \in {"open", "gaveUp"})

\* One tab has given up after ten failed retries while the other, which had
\* failed some retries, is connected again.
C15_Witness ==
    /\ scriptState[1] = "gaveUp"
    /\ reconnectAttempts[1] = maxReconnectAttempts
    /\ scriptState[2] = "open"
    /\ viaRetry[2]

\* ------------------------------------------------------------------------
\* Shutdown and fatal events
\* ------------------------------------------------------------------------

\* C16: the process exits with code 0 only after an interrupt, with the HTTP
\* listener not listening any more and, when a push server exists, after
\* the push server's close was issued: close listener, close push channel,
\* exit 0, in that order and once each, also for an interrupt that arrives
\* before the listener is up and for a second interrupt during shutdown.
C16_ShutdownOrder ==
    /\ proc # "exit0" => \A i \in 1..Len(shutdownLog) : shutdownLog[i] # "exit0"
    /\ proc = "exit0" =>
           /\ sigints > 0
           /\ listener # "listening"
           /\ shutdownLog = (IF liveReload THEN << "closeListener" >> ELSE <<>>)
                                \o (IF wsServer THEN << "closePush" >> ELSE <<>>)
                                \o << "exit0" >>

\* A second interrupt arrived while connections were draining; the process
\* then exited 0 after closing the listener and the push server.
C16_Witness ==
    /\ proc = "exit0"
    /\ sigints = 2
    /\ wsServer
    /\ shutdownLog = << "closeListener", "closePush", "exit0" >>

\* C17: after an interrupt signal the process eventually exits with code 0
\* (or with 1 if a fatal event ends it first), whatever HTTP or push
\* connections are open.
C17_InterruptEventuallyExits ==
    (sigints > 0) ~> (proc = "exit0" \/ fatal # "none")

\* C18: a failed bind, an uncaught exception and an unhandled rejection each
\* end the process with exit code 1; after a failed bind no push server
\* exists and the file watcher was never set up.
C18_FatalExitsOne ==
    /\ fatal # "none" => proc = "exit1"
    /\ fatal = "bind" => ~wsServer /\ ~watching /\ ~liveReload /\ listener = "binding"
    /\ wsServer \/ watching => listener # "binding"

\* The bind failed.
C18_Witness ==
    /\ fatal = "bind"
    /\ proc = "exit1"

\* ------------------------------------------------------------------------
\* Push channel port
\* ------------------------------------------------------------------------

\* C19: for the default port and for every PORT value, the push channel
\* listens on the HTTP port plus one, and the injected script connects to
\* that same port.
C19_PushPortIsNextPort ==
    portPc = "started" =>
        /\ wsPort = httpPort + 1
        /\ scriptPort = wsPort


\* ------------------------------------------------------------------------
\* Form submission
\* ------------------------------------------------------------------------

\* C20: whenever no submission is in flight, the submit button is enabled
\* and shows the text it had before the first submission, for every
\* sequence of submit events and every outcome of each network call.
C20_ButtonRestored ==
    (\A i \in Submissions : subState[i] # "pending") =>
        /\ ~submitButton.disabled
        /\ submitButton.textContent = ButtonLabel


\* C21: when the network call of a submission settles, the handler shows
\* one notification: with an OK response it is the success notification and
\* the form is reset; with a response that is not OK or a failed call it is
\* the error notification, the form is not reset and its field keeps its
\* value; in every case no exception leaves the handler.
C21_ResetExactlyOnOk ==
    [][\A i \in Submissions :
          (subState[i] = "pending" /\ subState'[i] # "pending") =>
              LET fresh == SubSeq(notifications', Len(notifications) + 1,
                                  Len(notifications'))
              IN /\ unhandled' = unhandled
                 /\ IF subState'[i] = "ok"
                    THEN /\ fresh = <<"success">>
                         /\ formResets' = formResets + 1
                         /\ formFields' = DefaultField
                    ELSE /\ fresh = <<"error">>
                         /\ formResets' = formResets
                         /\ formFields' = formFields]_vars

\* A filled form was reset by an OK response, filled again, and kept its
\* value through a response that was not OK and a failed call.
C21_Witness ==
    /\ subState = <<"ok", "notOk", "networkError">>
    /\ notifications = <<"success", "error", "error">>
    /\ formResets = 1
    /\ formFields = "a"
    /\ unhandled = 0


\* ------------------------------------------------------------------------
\* Debounce
\* ------------------------------------------------------------------------

\* The calls of func the function made with flag f made for its burst b
FuncCallsOf(f, b) == {k \in 1..Len(dLog[f]) : dLog[f][k].burst = b}

\* C22: the function made without the immediate flag calls func once for
\* each burst, `wait` after the burst's last call and with that call's
\* arguments; the function made with the flag calls func once for each
\* burst, on the burst's first call, and not when the burst has ended.
C22_OncePerBurst ==
    /\ \A b \in 1..dBurst[FALSE] :
          /\ Cardinality(FuncCallsOf(FALSE, b)) <= 1
          /\ (b < dBurst[FALSE] \/ dSince[FALSE] > dWait)
                 => Cardinality(FuncCallsOf(FALSE, b)) = 1
          /\ (b = dBurst[FALSE] /\ dSince[FALSE] < dWait)
                 => FuncCallsOf(FALSE, b) = {}
    /\ \A k \in 1..Len(dLog[FALSE]) :
          /\ dLog[FALSE][k].since = dWait
          /\ dLog[FALSE][k].args = dBurstArgs[FALSE][dLog[FALSE][k].burst]
    /\ \A b \in 1..dBurst[TRUE] : Cardinality(FuncCallsOf(TRUE, b)) = 1
    /\ \A k \in 1..Len(dLog[TRUE]) :
          /\ dLog[TRUE][k].nth = 1
          /\ dLog[TRUE][k].since = 0

\* Each function had a burst of two calls with different arguments, and
\* both bursts have ended.
C22_Witness ==
    /\ dWait = 2
    /\ dBurst = [f \in Flags |-> 1]
    /\ dBurstLen = [f \in Flags |-> 2]
    /\ dSince = [f \in Flags |-> dWait + 1]
    /\ dPending = {}
    /\ dLog[FALSE] = <<FuncCall(FALSE, "b", 2, 1, 2)>>
    /\ dLog[TRUE] = <<FuncCall(TRUE, "a", 0, 1, 1)>>


\* ------------------------------------------------------------------------
\* Throttle
\* ------------------------------------------------------------------------

ClosingEvent(ev) ==
    \/ ev.kind = "click" /\ ev.within = "outside"
    \/ ev.kind = "Escape"
    \/ ev.kind = "click" /\ ev.link # "none"

\* C24: after every sequence of clicks and key presses the toggle's
\* aria-expanded is "true" exactly if the menu has class is-active and
\* exactly if the toggle has it; and after a click outside, an Escape press
\* or a click on an anchor link the menu is closed.
C24_MenuAgreesAndCloses ==
    /\ (navbar.aria = "true") = navbar.menu
    /\ navbar.menu = navbar.toggle
    /\ (navLog # <<>> /\ ClosingEvent(Last(navLog))) => ~navbar.menu


\* ------------------------------------------------------------------------
\* The injected script's reconnection
\* ------------------------------------------------------------------------

\* C25: in one instance of the injected script at most one WebSocket is
\* connecting or open and at most one reconnect timer is pending, and never
\* both; the counter stays within 0..10 and is 0 while a WebSocket is open;
\* and the script stops retrying only with the counter at 10, that is after
\* ten retries in a row without an open.
C25_OneSocketOneTimer ==
    /\ Cardinality(Unclosed) + pageTimers <= 1
    /\ Cardinality(LiveSockets) <= 1
    /\ pageTimers <= 1
    /\ pageAttempts \in 0..maxReconnectAttempts
    /\ (\E i \in PageSocketIds : pageSockets[i] = "open") => pageAttempts = 0
    /\ (pageStarted /\ Unclosed = {} /\ pageTimers = 0)
          => pageAttempts = maxReconnectAttempts

\* The script has given up after ten failed retries in a row, having made
\* eleven retries since the page loaded: one of the earlier ones opened.
C25_Witness ==
    /\ pageStarted
    /\ Unclosed = {}
    /\ pageTimers = 0
    /\ pageAttempts = maxReconnectAttempts
    /\ pageRetries = maxReconnectAttempts + 1


====
